---- MODULE Spec2Model ----
(***************************************************************************)
(* Order lifecycle and real-time synchronisation of the POS role screens   *)
(* (kitchen display, floor staff) of the smart-menu web application.       *)
(*                                                                         *)
(* The kitchen display (KitchenDisplayPage) and the staff screen           *)
(* (StaffOrdersPage) each hold a React state `orders`, filled by a         *)
(* snapshot fetch and kept up to date by a Supabase postgres_changes       *)
(* callback.  The storage service behind /api/orders is not part of the    *)
(* client sources; it is modelled from the design document.                *)
(***************************************************************************)
EXTENDS Integers, Sequences, FiniteSets, TLC

\* ------------------------------------------------------------------ bounds
NumOrders == 2        \* order ids 1..NumOrders
MaxClock  == 2        \* writes the storage service performs in a run
MaxView   == 3        \* longest `orders` list the client is let to build
MaxAlerts == 2        \* playNotification calls counted per order id
TickHours == 6        \* step of the client's wall clock
MaxNow    == 12       \* last wall-clock hour of a run
NumRequests == 1      \* service request ids 1..NumRequests
MaxReqView  == 2      \* longest `serviceRequests` list the client is let to build
MaxDistance == 3      \* largest distance (km) the geocoding service resolves
MaxPlaced   == 1      \* orders created before the customer page is left aside
MaxInFlight == 2      \* POST /api/orders requests awaited at one time
MaxCart     == 2      \* lines the cart is let to hold
MaxQty      == 2      \* largest quantity of the item modal or of a cart line
MaxTimers   == 1      \* auto-submit timeouts of the login page pending at one time
MaxSent     == 2      \* service requests sent before the customer page is left aside

\* expires: Date.now() + (8 * 60 * 60 * 1000), counted here in hours
SessionHours == 8

OrderIds == 1 .. NumOrders
Roles    == {"kitchen", "staff"}

ActiveStatuses   == {"pending", "confirmed", "preparing", "ready"}
TerminalStatuses == {"completed", "cancelled"}
Statuses         == ActiveStatuses \cup TerminalStatuses

VARIABLES
  db,          \* storage: order id -> row (status "none" before creation)
  clock,       \* storage clock; the storage assigns updated_at from it
  events,      \* change events emitted so far (deliverable any number of times)
  role,        \* which POS page this client shows: "kitchen" or "staff"
  orders,      \* the React state `orders` (a list, newest first)
  alerts,      \* order id -> number of playNotification calls
  fetchResp,   \* response of the fetchOrders call in flight
  statusResp,  \* response of the updateOrderStatus call in flight
  delivered,   \* the change event the channel callback handled last
  unknown,     \* the updateOrderStatus call that threw, its outcome not known
  now,         \* the client's wall clock (Date.now()), in hours
  page,        \* the route shown: "login" or "pos"
  stored,      \* localStorage item pos_session
  session,     \* the React state `session` of the POS page
  chan,        \* realtime channel: "joined", "closed" or "joining"
  sync,        \* view versus channel: "synced", "lost" or "refetching"
  missed,      \* change events emitted while the page's channel was being replaced
  reqDb,            \* table service_requests: request id -> status ("none" before creation)
  reqEvents,        \* change events of service_requests emitted so far
  serviceRequests,  \* the React state `serviceRequests` of the staff page
  reqFetchResp,     \* response of the fetchServiceRequests call in flight
  reqResp,          \* response of the updateRequestStatus call in flight
  reqStamps,        \* table service_requests: request id -> its stamp columns
  payment,          \* table orders: order id -> payment_status
  soundEnabled,     \* the React state `soundEnabled` of the POS page
  vibrationEnabled, \* the React state `vibrationEnabled` of the POS page
  audio,            \* what the audio initialisation effect has left
  activeTab,        \* staff page: 'orders' | 'requests'
  played,           \* what the last channel callback made the device play
  serviceType,          \* customer menu page: 'dine_in' | 'pickup' | 'delivery'
  customerDetails,      \* table_no, name, phone, address as typed
  cart,                 \* the cart items (price, quantity)
  deliveryRates,        \* the restaurant's rate tiers, sorted by fetchMenus
  selectedDeliveryFee,  \* the delivery fee shown and sent
  restaurantLocation,   \* latitude and longitude, null when not set
  calculatingDelivery,  \* a delivery calculation is in flight
  deliveryCalculation,  \* the result of the last delivery calculation, or null
  calcReq,              \* the POST /api/delivery/calculate request in flight
  alertMsg,             \* the alert() dialog shown, "" when none
  orderPlaced,          \* the "Order Placed!" overlay is shown
  placeResps,           \* responses of POST /api/orders in flight
  placedOrders,         \* orders the storage service created from this page
  selectedRequestType,  \* service request modal: the type chosen, '' when none
  customMessage,        \* service request modal: the optional message
  sendingRequest,       \* a POST /api/service-requests is in flight
  requestSent,          \* the "request sent" panel is shown
  sentRequests,         \* bodies of the POST /api/service-requests sent so far
  itemModal,            \* customer menu page: the ItemModal and its states
  pin,                  \* POS login page: the React state `pin`, a digit string
  pinTimers,            \* pending auto-submit timeouts, each with the pin of its render
  verifyReq,            \* pin_code of the verify-pin request awaited, empty when none
  statusPage,           \* order-status page: "closed" or "open"
  order,                \* order-status page: the React state `order`
  orderError,           \* order-status page: the React state `error`
  orderFetches,         \* order-status page: responses of fetchOrder in flight
  orderEventsSeen,      \* order-status page: events its channel callback has handled
  cashier,              \* cashier dashboard: "closed" or "open"
  selectedDate,         \* cashier dashboard: the React state `selectedDate`
  summary,              \* cashier dashboard: the React state `summary`
  summaryError,         \* cashier dashboard: the React state `error`
  refreshing,           \* cashier dashboard: the React state `refreshing`
  summaryFetches        \* cashier dashboard: daily-summary requests in flight

srvVars  == <<db, clock, events, payment>>
viewVars == <<orders, alerts, fetchResp, statusResp, delivered, unknown>>
sessVars == <<now, page, stored, session>>
chanVars == <<chan, sync, missed>>
alertVars == <<soundEnabled, vibrationEnabled, audio, activeTab, played>>
posVars  == <<srvVars, role, viewVars, sessVars, chanVars, alertVars>>
reqVars  == <<reqDb, reqEvents, serviceRequests, reqFetchResp, reqResp, reqStamps>>
formVars == <<serviceType, cart, deliveryRates, selectedDeliveryFee, restaurantLocation,
              calculatingDelivery, deliveryCalculation, calcReq, orderPlaced, placeResps,
              placedOrders>>
callVars == <<selectedRequestType, customMessage, sendingRequest, requestSent, sentRequests>>
custVars == <<serviceType, customerDetails, cart, deliveryRates, selectedDeliveryFee,
              restaurantLocation, calculatingDelivery, deliveryCalculation, calcReq,
              alertMsg, orderPlaced, placeResps, placedOrders, callVars>>
pinVars == <<pin, pinTimers, verifyReq>>
trackVars == <<statusPage, order, orderError, orderFetches, orderEventsSeen>>
cashVars == <<cashier, selectedDate, summary, summaryError, refreshing, summaryFetches>>
extVars == <<itemModal, pinVars, trackVars, cashVars>>
vars == <<db, clock, events, role, orders, alerts, fetchResp, statusResp,
          delivered, unknown, now, page, stored, session, chan, sync, missed,
          reqDb, reqEvents, serviceRequests, reqFetchResp, reqResp,
          serviceType, customerDetails, cart, deliveryRates, selectedDeliveryFee,
          restaurantLocation, calculatingDelivery, deliveryCalculation, calcReq,
          alertMsg, orderPlaced, placeResps, placedOrders,
          reqStamps, payment, soundEnabled, vibrationEnabled, audio, activeTab, played,
          selectedRequestType, customMessage, sendingRequest, requestSent, sentRequests,
          itemModal, pin, pinTimers, verifyReq,
          statusPage, order, orderError, orderFetches, orderEventsSeen,
          cashier, selectedDate, summary, summaryError, refreshing, summaryFetches>>

None == [kind |-> "none"]

\* ------------------------------------------------------------ storage side
\* The order lifecycle graph of the design (section 4.1).
ForwardEdges ==
  { <<"pending", "confirmed">>, <<"confirmed", "preparing">>,
    <<"preparing", "ready">>, <<"ready", "completed">> }

Edges == ForwardEdges \cup { <<s, "cancelled">> : s \in ActiveStatuses }

DbRow(id) == [id |-> id, status |-> db[id].status, updated_at |-> db[id].updated_at]

ChangeEvent(type, id, st, at) ==
  [kind |-> "event", eventType |-> type, id |-> id, status |-> st, updated_at |-> at]

\* The realtime service sends an event to the channels joined when it is
\* emitted: between removeChannel and the join of the channel that replaces
\* it the page has none, and the event is not sent again.
MissedAfter(e) == IF chan = "joining" THEN missed \cup {e} ELSE missed

\* A customer places an order: a row in status pending, an INSERT event.
CreateOrder(id) ==
  /\ db[id].status = "none"
  /\ clock < MaxClock
  /\ clock' = clock + 1
  /\ db' = [db EXCEPT ![id] = [status |-> "pending", updated_at |-> clock + 1]]
  /\ events' = events \cup {ChangeEvent("INSERT", id, "pending", clock + 1)}
  /\ missed' = MissedAfter(ChangeEvent("INSERT", id, "pending", clock + 1))
  /\ UNCHANGED <<payment, role, reqVars, custVars, extVars, alertVars, viewVars, sessVars, chan, sync>>

\* A storage service that accepts every known status as target.
SetOrderStatusOk_AnyTarget(id, target) ==
  db[id].status \in Statuses /\ target \in Statuses

\* setOrderStatus(id, status): accepted only along an edge of the graph.
SetOrderStatusOk(id, target) == <<db[id].status, target>> \in Edges

\* Another client (a second kitchen or staff screen, the owner) moves an order
\* along an edge of the graph.
SetStatusElsewhere(id, target) ==
  /\ SetOrderStatusOk(id, target)
  /\ clock < MaxClock
  /\ clock' = clock + 1
  /\ db' = [db EXCEPT ![id] = [status |-> target, updated_at |-> clock + 1]]
  /\ events' = events \cup {ChangeEvent("UPDATE", id, target, clock + 1)}
  /\ missed' = MissedAfter(ChangeEvent("UPDATE", id, target, clock + 1))
  /\ UNCHANGED <<payment, role, reqVars, custVars, extVars, alertVars, viewVars, sessVars, chan, sync>>

\* A row is deleted from the orders table: a DELETE event carrying old.id.
DeleteOrder(id) ==
  /\ db[id].status \in Statuses
  /\ db' = [db EXCEPT ![id] = [status |-> "deleted", updated_at |-> 0]]
  /\ events' = events \cup {ChangeEvent("DELETE", id, "deleted", 0)}
  /\ missed' = MissedAfter(ChangeEvent("DELETE", id, "deleted", 0))
  /\ UNCHANGED <<clock, payment, role, reqVars, custVars, extVars, alertVars, viewVars, sessVars, chan, sync>>

\* GET /api/orders?restaurant_id=..[&status=..]: the rows whose status is in S,
\* newest first.
RECURSIVE RowsFrom(_, _)
RowsFrom(n, S) ==
  IF n = 0 THEN <<>>
  ELSE (IF db[n].status \in S THEN <<DbRow(n)>> ELSE <<>>) \o RowsFrom(n - 1, S)

\* GET /api/orders/{id}: the row, whatever its status, or 404.
GetOrderById(id) ==
  IF db[id].status \in Statuses
  THEN [ok |-> TRUE, order |-> DbRow(id)]
  ELSE [ok |-> FALSE, order |-> None]

\* ------------------------------------------------------------- client side
Row(e) == [id |-> e.id, status |-> e.status, updated_at |-> e.updated_at]

\* The staff callback without its terminal-status branch: every UPDATE replaces.
StaffOnOrderEvent_NoTerminalBranch(prev, e) ==
  IF e.eventType = "INSERT" THEN <<Row(e)>> \o prev
  ELSE IF e.eventType = "UPDATE" THEN
    [i \in DOMAIN prev |-> IF prev[i].id = e.id THEN Row(e) ELSE prev[i]]
  ELSE SelectSeq(prev, LAMBDA o : o.id # e.id)

\* StaffOrdersPage, callback of the 'staff-orders' channel.
StaffOnOrderEvent(prev, e) ==
  IF e.eventType = "INSERT" THEN <<Row(e)>> \o prev
  ELSE IF e.eventType = "UPDATE" THEN
    IF e.status \in TerminalStatuses
    THEN SelectSeq(prev, LAMBDA o : o.id # e.id)
    ELSE [i \in DOMAIN prev |-> IF prev[i].id = e.id THEN Row(e) ELSE prev[i]]
  ELSE SelectSeq(prev, LAMBDA o : o.id # e.id)

\* KitchenDisplayPage, callback of the 'kitchen-orders' channel.
KitchenOnOrderEvent(prev, e) ==
  IF e.eventType = "INSERT" THEN <<Row(e)>> \o prev
  ELSE IF e.eventType = "UPDATE" THEN
    SelectSeq([i \in DOMAIN prev |-> IF prev[i].id = e.id THEN Row(e) ELSE prev[i]],
              LAMBDA o : o.status \notin TerminalStatuses)
  ELSE SelectSeq(prev, LAMBDA o : o.id # e.id)

OnOrderEvent(r, prev, e) ==
  IF r = "staff" THEN StaffOnOrderEvent(prev, e) ELSE KitchenOnOrderEvent(prev, e)

\* The subscription effect has run: a session is set and the channel is joined.
Subscribed == page = "pos" /\ session # None /\ chan = "joined"

\* What the device plays: a sound and a vibration, each Silent when absent.
Silent == "silent"

Mp3 == "/sounds/notification.mp3"

\* The oscillator frequencies and wave form playWebAudioNotification schedules.
SynthPattern(type) ==
  IF type = "request" THEN "600,800,600,800 triangle" ELSE "800,1000 sine"

\* navigator.vibrate(...)
VibrationPattern(type) ==
  IF type = "request" THEN "300,100,300,100,300" ELSE "200,100,200"

\* The states the audio initialisation effect leaves: "loading" (the mp3 has
\* fired neither canplaythrough nor error), "file" (audioRef holds the mp3),
\* "synth" (audioContextRef holds an AudioContext), "none" (neither).
AudioStates == {"loading", "file", "synth", "none"}

\* playWebAudioNotification: returns at once without an AudioContext.
PlayWebAudioNotification(a, type) ==
  IF a = "synth" THEN SynthPattern(type) ELSE Silent

\* A staff playNotification that does not look at soundEnabled.
StaffSound_IgnoreMute(enabled, a, type) == PlayWebAudioNotification(a, type)

\* StaffOrdersPage.playNotification, the sound it makes.
StaffSound(enabled, a, type) ==
  IF enabled THEN PlayWebAudioNotification(a, type) ELSE Silent

\* KitchenDisplayPage.playNotification, the sound it makes; `rejected` tells
\* whether the promise of audioRef.current.play() is rejected.
KitchenSound(enabled, a, rejected) ==
  IF ~enabled THEN Silent
  ELSE IF a = "file"
       THEN (IF rejected THEN PlayWebAudioNotification(a, "order") ELSE Mp3)
       ELSE PlayWebAudioNotification(a, "order")

\* playNotification(type) of the page of role r, on a device that vibrates.
PlayNotification(r, type, rejected) ==
  [sound |-> IF r = "staff" THEN StaffSound(soundEnabled, audio, type)
             ELSE KitchenSound(soundEnabled, audio, rejected),
   vibration |-> IF vibrationEnabled THEN VibrationPattern(type) ELSE Silent]

\* A callback that does not call playNotification.
NoOutput == [sound |-> Silent, vibration |-> Silent]

\* The outcomes of audioRef.current.play() the callback may meet.
PlayOutcomes(r, type) ==
  IF type = "INSERT" /\ r = "kitchen" /\ soundEnabled /\ audio = "file"
  THEN BOOLEAN ELSE {FALSE}

\* An orders callback that calls playNotification in every branch.
OrderEventOutput_EveryEvent(r, type, rejected) == PlayNotification(r, "order", rejected)

\* What the orders callback of role r makes the device play for an event of
\* the given type: playNotification is called in the INSERT branch only.
OrderEventOutput(r, type, rejected) ==
  IF type = "INSERT" THEN PlayNotification(r, "order", rejected) ELSE NoOutput

\* The transport hands event e to the channel callback (at least once, in any
\* order).  An INSERT calls playNotification before it changes the list.
DeliverOrderEvent(e) ==
  /\ Subscribed
  /\ e \in events
  /\ e \notin missed
  /\ e.eventType = "INSERT" =>
       /\ Len(orders) < MaxView
       /\ alerts[e.id] < MaxAlerts
  /\ orders' = OnOrderEvent(role, orders, e)
  /\ alerts' = IF e.eventType = "INSERT"
               THEN [alerts EXCEPT ![e.id] = @ + 1]
               ELSE alerts
  /\ \E rejected \in PlayOutcomes(role, e.eventType) :
       played' = OrderEventOutput(role, e.eventType, rejected)
  /\ delivered' = e
  /\ UNCHANGED <<srvVars, role, reqVars, custVars, extVars, soundEnabled, vibrationEnabled, audio,
                 activeTab, fetchResp, statusResp, unknown, sessVars, chanVars>>

\* A new playNotification is a new dependency of the subscription effect: its
\* cleanup removes the channels and its body subscribes new ones, whose join
\* is under way when the render is over.
Resubscribe ==
  /\ chan' = "joining"
  /\ UNCHANGED <<sync, missed>>

\* The sound button of the header: setSoundEnabled(!soundEnabled).
ToggleSound ==
  /\ page = "pos" /\ session # None
  /\ soundEnabled' = ~soundEnabled
  /\ Resubscribe
  /\ UNCHANGED <<srvVars, role, reqVars, custVars, extVars, viewVars, sessVars,
                 vibrationEnabled, audio, activeTab, played>>

\* The vibration checkbox of the kitchen settings panel.
ToggleVibration ==
  /\ page = "pos" /\ session # None
  /\ role = "kitchen"
  /\ vibrationEnabled' = ~vibrationEnabled
  /\ Resubscribe
  /\ UNCHANGED <<srvVars, role, reqVars, custVars, extVars, viewVars, sessVars,
                 soundEnabled, audio, activeTab, played>>

\* A volume slider (the one of the header is rendered while soundEnabled, the
\* one of the kitchen settings panel always): setVolume(Number(e.target.value))
\* makes a new playWebAudioNotification, hence a new playNotification.  The
\* gain is no part of what `played` records.
SetVolume ==
  /\ page = "pos" /\ session # None
  /\ role = "staff" => soundEnabled
  /\ Resubscribe
  /\ UNCHANGED <<srvVars, role, reqVars, custVars, extVars, viewVars, sessVars, alertVars>>

\* .subscribe(): the join of the new channels is acknowledged.
ChannelJoined ==
  /\ chan = "joining"
  /\ chan' = "joined"
  /\ UNCHANGED <<srvVars, role, reqVars, custVars, extVars, viewVars, sessVars, alertVars,
                 sync, missed>>

\* KitchenDisplayPage: the mp3 fires canplaythrough.
AudioCanPlay ==
  /\ role = "kitchen"
  /\ audio = "loading"
  /\ audio' = "file"
  /\ UNCHANGED <<srvVars, role, reqVars, custVars, extVars, viewVars, sessVars, chanVars,
                 soundEnabled, vibrationEnabled, activeTab, played>>

\* KitchenDisplayPage: the mp3 fires error; the listener constructs an
\* AudioContext, which the browser grants or not.
AudioError(granted) ==
  /\ role = "kitchen"
  /\ audio = "loading"
  /\ audio' = IF granted THEN "synth" ELSE "none"
  /\ UNCHANGED <<srvVars, role, reqVars, custVars, extVars, viewVars, sessVars, chanVars,
                 soundEnabled, vibrationEnabled, activeTab, played>>

\* The tab buttons of the staff page.
SetActiveTab(t) ==
  /\ page = "pos" /\ session # None
  /\ role = "staff"
  /\ activeTab' = t
  /\ UNCHANGED <<srvVars, role, reqVars, custVars, extVars, viewVars, sessVars, chanVars,
                 soundEnabled, vibrationEnabled, audio, played>>

\* The status filter fetchOrders sends with its query.
FetchStatuses(r) ==
  IF r = "kitchen" THEN {"pending", "confirmed", "preparing"}
  ELSE Statuses

\* fetchOrders (initial-fetch effect, Refresh button): the request reaches the
\* storage service, the response is in flight.
FetchOrders ==
  /\ page = "pos" /\ session # None
  /\ fetchResp = None
  /\ fetchResp' = [kind |-> "orders", orders |-> RowsFrom(NumOrders, FetchStatuses(role))]
  /\ sync' = IF sync = "lost" /\ chan = "joined" THEN "refetching" ELSE sync
  /\ UNCHANGED <<srvVars, role, reqVars, custVars, extVars, alertVars, orders, alerts, statusResp, delivered, unknown, sessVars, chan, missed>>

\* What fetchOrders stores once data.success holds.
FetchedOrders(r, rows) ==
  IF r = "staff" THEN SelectSeq(rows, LAMBDA o : o.status \notin TerminalStatuses)
  ELSE rows

FetchOrdersDone ==
  /\ fetchResp # None
  /\ orders' = FetchedOrders(role, fetchResp.orders)
  /\ fetchResp' = None
  /\ unknown' = None
  /\ sync' = IF sync = "refetching" THEN "synced" ELSE sync
  /\ UNCHANGED <<srvVars, role, reqVars, custVars, extVars, alertVars, alerts, statusResp, delivered, sessVars, chan, missed>>

\* The fetch throws or data.success is false: the catch only logs.
FetchOrdersFail ==
  /\ fetchResp # None
  /\ fetchResp' = None
  /\ sync' = IF sync = "refetching" THEN "lost" ELSE sync
  /\ UNCHANGED <<srvVars, role, reqVars, custVars, extVars, alertVars, orders, alerts, statusResp, delivered, unknown, sessVars, chan, missed>>

\* The kitchen buttons with "start cooking" offered on a pending order.
KitchenButtons_CookPending(status) ==
  CASE status = "pending"   -> {"preparing"}
    [] status = "confirmed" -> {"preparing"}
    [] status = "preparing" -> {"ready"}
    [] status = "ready"     -> {"completed"}
    [] OTHER                -> {}

\* KitchenDisplayPage action buttons: the targets offered for a shown status.
KitchenButtons(status) ==
  CASE status = "pending"   -> {"confirmed"}
    [] status = "confirmed" -> {"preparing"}
    [] status = "preparing" -> {"ready"}
    [] status = "ready"     -> {"completed"}
    [] OTHER                -> {}

\* StaffOrdersPage action buttons.
StaffButtons(status) ==
  (IF status = "ready" THEN {"completed"} ELSE {})
  \cup (IF status # "ready" /\ status # "completed" THEN {"completed"} ELSE {})

Buttons(r, status) ==
  IF r = "staff" THEN StaffButtons(status) ELSE KitchenButtons(status)

\* A request body that also marks the order paid.
StatusBody_MarkPaid(newStatus) == [status |-> newStatus, payment_status |-> "paid"]

\* body: JSON.stringify({ status: newStatus })
StatusBody(newStatus) == [status |-> newStatus]

\* The payment collaborator records a payment for an order.
PaymentElsewhere(id) ==
  /\ db[id].status \in Statuses
  /\ payment[id] = "unpaid"
  /\ payment' = [payment EXCEPT ![id] = "paid"]
  /\ UNCHANGED <<db, clock, events, role, reqVars, custVars, extVars, alertVars, viewVars, sessVars, chanVars>>

\* updateOrderStatus(orderId, newStatus) from a button of the i-th card:
\* PUT /api/orders/{id}/status; the storage accepts or rejects; the response
\* is in flight.  `shown` records the status on the card that was pressed.
UpdateOrderStatus(i, newStatus) ==
  /\ page = "pos" /\ session # None
  /\ statusResp = None
  /\ i \in DOMAIN orders
  /\ newStatus \in Buttons(role, orders[i].status)
  /\ LET id == orders[i].id
         ok == SetOrderStatusOk(id, newStatus) /\ clock < MaxClock
     IN /\ statusResp' = [kind |-> "status", orderId |-> id, newStatus |-> newStatus,
                          shown |-> orders[i].status, ok |-> ok,
                          body |-> StatusBody(newStatus)]
        /\ IF ok
           THEN /\ clock' = clock + 1
                /\ db' = [db EXCEPT ![id] = [status |-> newStatus, updated_at |-> clock + 1]]
                /\ events' = events \cup {ChangeEvent("UPDATE", id, newStatus, clock + 1)}
                /\ missed' = MissedAfter(ChangeEvent("UPDATE", id, newStatus, clock + 1))
           ELSE UNCHANGED <<db, clock, events, missed>>
        /\ unknown' = IF unknown # None /\ unknown.orderId = id THEN None ELSE unknown
  /\ UNCHANGED <<payment, role, reqVars, custVars, extVars, alertVars, orders, alerts, fetchResp, delivered, sessVars, chan, sync>>

\* updateOrderStatus without its response.ok test.
AfterStatusResponse_IgnoreOk(prev, r) ==
  IF r.newStatus \in TerminalStatuses
  THEN SelectSeq(prev, LAMBDA o : o.id # r.orderId)
  ELSE prev

\* The list updateOrderStatus leaves once the response has arrived.
AfterStatusResponse(prev, r) ==
  IF r.ok /\ r.newStatus \in TerminalStatuses
  THEN SelectSeq(prev, LAMBDA o : o.id # r.orderId)
  ELSE prev

UpdateOrderStatusDone ==
  /\ statusResp # None
  /\ orders' = AfterStatusResponse(orders, statusResp)
  /\ statusResp' = None
  /\ UNCHANGED <<srvVars, role, reqVars, custVars, extVars, alertVars, alerts, fetchResp, delivered, unknown, sessVars, chanVars>>

\* The request throws (network failure, timeout): the catch only logs.
UpdateOrderStatusFail ==
  /\ statusResp # None
  /\ statusResp' = None
  /\ unknown' = [kind |-> "unknown", orderId |-> statusResp.orderId,
                 newStatus |-> statusResp.newStatus]
  /\ UNCHANGED <<srvVars, role, reqVars, custVars, extVars, alertVars, orders, alerts, fetchResp, delivered, sessVars, chanVars>>

\* ------------------------------------------------------------- role session
SessionOf(t) == [kind |-> "session", expires |-> t + SessionHours]

\* What leaving the POS page discards: the component's state and its pending
\* callbacks.
Unmount ==
  /\ session' = None
  /\ orders' = <<>>
  /\ fetchResp' = None
  /\ statusResp' = None
  /\ unknown' = None
  /\ serviceRequests' = <<>>
  /\ reqFetchResp' = None
  /\ reqResp' = None
  /\ soundEnabled' = TRUE
  /\ vibrationEnabled' = TRUE
  /\ activeTab' = "orders"

\* POSLoginPage.handlePinSubmit with a PIN the server accepts: the session is
\* stored with expires = now + 8 h and the router goes to the POS page.  The
\* keys that lead to it are those of the PIN keypad section.
HandlePinSubmit ==
  /\ page = "login"
  /\ stored' = SessionOf(now)
  /\ page' = "pos"
  /\ UNCHANGED <<srvVars, role, reqVars, custVars, extVars, alertVars, viewVars, now, session, chanVars>>

\* ---------------------------------------------------- order-status page
\* The order whose id is in the route of the page.
TrackedId == 1

\* useState<Order | null>(null)
NoOrder == [status |-> "none", updated_at |-> 0 - 1]

\* GET /api/orders/{order_id} as the storage service answers it: the row, or
\* 404 when there is none.
OrderResponse ==
  IF db[TrackedId].status \in Statuses
  THEN [result |-> "ok", status |-> db[TrackedId].status,
        updated_at |-> db[TrackedId].updated_at]
  ELSE [result |-> "404", status |-> "none", updated_at |-> 0 - 1]

\* The request fails before an answer is read.
FailedResponse == [result |-> "failed", status |-> "none", updated_at |-> 0 - 1]

\* The mount effect: fetchOrder() and setupRealtimeSubscription().
OpenOrderStatus ==
  /\ statusPage = "closed"
  /\ statusPage' = "open"
  /\ \E r \in {OrderResponse, FailedResponse} : orderFetches' = orderFetches \cup {r}
  /\ UNCHANGED <<posVars, reqVars, custVars, itemModal, pinVars, cashVars, order, orderError,
                 orderEventsSeen>>

\* The callback of the channel `order-${order_id}` (UPDATE events of the
\* row): it calls fetchOrder() and uses nothing of the payload.
OnOrderStatusEvent(e) ==
  /\ statusPage = "open"
  /\ e \in events
  /\ e.eventType = "UPDATE" /\ e.id = TrackedId
  /\ orderEventsSeen' = orderEventsSeen \cup {e}
  /\ \E r \in {OrderResponse, FailedResponse} : orderFetches' = orderFetches \cup {r}
  /\ UNCHANGED <<posVars, reqVars, custVars, itemModal, pinVars, cashVars, statusPage, order,
                 orderError>>

\* fetchOrder after its await; the requests in flight are answered in any
\* order.
FetchOrderDone(r) ==
  /\ r \in orderFetches
  /\ orderFetches' = orderFetches \ {r}
  /\ IF r.result = "ok"
     THEN /\ order' = [status |-> r.status, updated_at |-> r.updated_at]
          /\ UNCHANGED orderError
     ELSE /\ orderError' = IF r.result = "404" THEN "Order not found"
                           ELSE "Failed to fetch order"
          /\ UNCHANGED order
  /\ UNCHANGED <<posVars, reqVars, custVars, itemModal, pinVars, cashVars, statusPage,
                 orderEventsSeen>>

\* getStatusInfo(status).text
GetStatusInfo(status) ==
  CASE status = "pending"   -> "Order Received"
    [] status = "preparing" -> "Preparing"
    [] status = "ready"     -> "Ready for Pickup"
    [] status = "completed" -> "Completed"
    [] status = "cancelled" -> "Cancelled"
    [] OTHER                -> "Unknown"

\* The page renders the status card: not the error panel.
StatusCardShown == statusPage = "open" /\ orderError = "" /\ order # NoOrder

\* The heading of the status card.
StatusText == GetStatusInfo(order.status)

\* ---------------------------------------------------- cashier dashboard
\* Values of the date input: new Date().toISOString().split('T')[0] and the
\* two days before (the input has max = today).
Today == "2026-01-03"

Dates == {"2026-01-01", "2026-01-02", "2026-01-03"}

\* useState<DailySummary | null>(null); a summary is told here by the day
\* the storage service computed it for.
NoSummary == [date |-> "null"]

\* useState<string | null>(null)
NoError == "null"

\* fetchSummary up to its await: the request carries the selectedDate of the
\* render that calls it.
FetchSummary(date) ==
  /\ refreshing' = TRUE
  /\ summaryError' = NoError
  /\ summaryFetches' = summaryFetches \cup {[date |-> date]}

\* The session check of the mount effect passes, and the effect over
\* [session, selectedDate] calls fetchSummary.
OpenCashier ==
  /\ cashier = "closed"
  /\ cashier' = "open"
  /\ FetchSummary(selectedDate)
  /\ UNCHANGED <<posVars, reqVars, custVars, itemModal, pinVars, trackVars, selectedDate,
                 summary>>

\* The date input: setSelectedDate(e.target.value) re-runs the effect.
SetSelectedDate(date) ==
  /\ cashier = "open"
  /\ date # selectedDate
  /\ selectedDate' = date
  /\ FetchSummary(date)
  /\ UNCHANGED <<posVars, reqVars, custVars, itemModal, pinVars, trackVars, cashier,
                 summary>>

\* The Refresh button, disabled while refreshing.
RefreshSummary ==
  /\ cashier = "open"
  /\ ~refreshing
  /\ FetchSummary(selectedDate)
  /\ UNCHANGED <<posVars, reqVars, custVars, itemModal, pinVars, trackVars, cashier,
                 selectedDate, summary>>

\* fetchSummary after its await; requests in flight are answered in any
\* order.
FetchSummaryDone(r, success) ==
  /\ r \in summaryFetches
  /\ summaryFetches' = summaryFetches \ {r}
  /\ IF success
     THEN summary' = [date |-> r.date] /\ UNCHANGED summaryError
     ELSE summaryError' = "Failed to fetch summary" /\ UNCHANGED summary
  /\ refreshing' = FALSE
  /\ UNCHANGED <<posVars, reqVars, custVars, itemModal, pinVars, trackVars, cashier,
                 selectedDate>>

\* ------------------------------------------------------------ PIN keypad
\* The keys of the number pad.
Digits == {"1", "2"}

PinLength == 6

\* handlePinSubmit as the render whose `pin` is p defines it: the pin_code it
\* posts to /api/staff/verify-pin, empty when it returns at once.
PinSubmitted(p) == IF Len(p) # PinLength THEN <<>> ELSE p

\* loading: set before the request, cleared in its finally.
Loading == verifyReq # <<>>

\* handlePinKeyPress(digit): a seventh digit is ignored; the sixth schedules
\* setTimeout(() => handlePinSubmit(), 100), whose handlePinSubmit is the one
\* of the render that handles the key press, with `pin` as it was before the
\* key.
HandlePinKeyPress(digit) ==
  /\ page = "login"
  /\ ~Loading
  /\ IF Len(pin) < PinLength
     THEN /\ pin' = Append(pin, digit)
          /\ IF Len(pin) + 1 = PinLength
             THEN /\ Len(pinTimers) < MaxTimers
                  /\ pinTimers' = Append(pinTimers, pin)
             ELSE UNCHANGED pinTimers
     ELSE UNCHANGED <<pin, pinTimers>>
  /\ UNCHANGED <<posVars, reqVars, custVars, itemModal, trackVars, cashVars, verifyReq>>

\* handlePinDelete: setPin(pin.slice(0, -1)).
HandlePinDelete ==
  /\ page = "login"
  /\ ~Loading
  /\ pin' = SubSeq(pin, 1, Len(pin) - 1)
  /\ UNCHANGED <<posVars, reqVars, custVars, itemModal, trackVars, cashVars, pinTimers, verifyReq>>

\* The C key: setPin('').
ClearPin ==
  /\ page = "login"
  /\ ~Loading
  /\ pin' = <<>>
  /\ UNCHANGED <<posVars, reqVars, custVars, itemModal, trackVars, cashVars, pinTimers, verifyReq>>

\* The oldest auto-submit timeout fires and calls its handlePinSubmit.
AutoSubmit ==
  /\ page = "login"
  /\ pinTimers # <<>>
  /\ pinTimers' = Tail(pinTimers)
  /\ verifyReq' = IF PinSubmitted(Head(pinTimers)) # <<>>
                  THEN PinSubmitted(Head(pinTimers))
                  ELSE verifyReq
  /\ UNCHANGED <<posVars, reqVars, custVars, itemModal, trackVars, cashVars, pin>>

\* The Enter button (disabled unless pin.length is 6 and nothing is loading):
\* handlePinSubmit of the current render.
PressEnter ==
  /\ page = "login"
  /\ Len(pin) = PinLength /\ ~Loading
  /\ verifyReq' = PinSubmitted(pin)
  /\ UNCHANGED <<posVars, reqVars, custVars, itemModal, trackVars, cashVars, pin, pinTimers>>

\* handlePinSubmit after the await: the session is stored and the router
\* goes to the POS page, or the error is shown and the pin is cleared.
VerifyPinDone(success) ==
  /\ page = "login"
  /\ Loading
  /\ verifyReq' = <<>>
  /\ IF success
     THEN /\ stored' = SessionOf(now)
          /\ page' = "pos"
          /\ UNCHANGED pin
     ELSE /\ pin' = <<>>
          /\ UNCHANGED <<stored, page>>
  /\ UNCHANGED <<srvVars, role, viewVars, now, session, chanVars, alertVars, reqVars,
                 custVars, itemModal, trackVars, cashVars, pinTimers>>

\* The "Check session" effect, run when the POS page mounts.
CheckSession ==
  /\ page = "pos"
  /\ session = None
  /\ IF stored = None
     THEN /\ page' = "login"
          /\ UNCHANGED <<stored, session>>
     ELSE IF stored.expires < now
     THEN /\ stored' = None
          /\ page' = "login"
          /\ UNCHANGED session
     ELSE /\ session' = stored
          /\ UNCHANGED <<stored, page>>
  /\ UNCHANGED <<srvVars, role, reqVars, custVars, extVars, alertVars, viewVars, now, chanVars>>

\* handleLogout.
HandleLogout ==
  /\ page = "pos"
  /\ session # None
  /\ stored' = None
  /\ page' = "login"
  /\ Unmount
  /\ UNCHANGED <<srvVars, role, custVars, extVars, audio, played, reqDb, reqEvents, reqStamps, alerts,
                 delivered, now, chanVars>>

\* Wall-clock time passes.
Tick ==
  /\ now + TickHours <= MaxNow
  /\ now' = now + TickHours
  /\ UNCHANGED <<srvVars, role, reqVars, custVars, extVars, alertVars, viewVars, page, stored, session, chanVars>>

\* ---------------------------------------------------------- realtime channel
\* The websocket of the subscribed channel drops.
ChannelDrop ==
  /\ Subscribed
  /\ chan' = "closed"
  /\ sync' = "lost"
  /\ UNCHANGED <<srvVars, role, reqVars, custVars, extVars, alertVars, viewVars, sessVars, missed>>

\* The realtime client rejoins the channel by itself; subscribe() was given no
\* status callback, so no code of the page runs.
ChannelRejoin ==
  /\ chan = "closed"
  /\ chan' = "joined"
  /\ UNCHANGED <<srvVars, role, reqVars, custVars, extVars, alertVars, viewVars, sessVars, sync, missed>>

\* ---------------------------------------------------------- service requests
RequestIds == 1 .. NumRequests

RequestStatuses == {"pending", "acknowledged", "completed"}

RequestEvent(type, id, st) ==
  [kind |-> "event", eventType |-> type, id |-> id, status |-> st]

RequestRow(e) == [id |-> e.id, status |-> e.status]

\* session.staffId of this screen, and of another staff screen.
StaffId == "staff-1"

OtherStaffId == "staff-2"

\* Column values: null in the table, undefined in an update payload.
NullId == "null"

UndefinedId == "undefined"

NullTime == 0 - 1

UndefinedTime == 0 - 2

\* The stamp columns of a row nobody has acted on.
NoStamps ==
  [acknowledged_by |-> NullId, acknowledged_at |-> NullTime,
   completed_at |-> NullTime, updated_at |-> NullTime]

\* The object updateRequestStatus passes to update(): t is new Date().
RequestUpdate(newStatus, staffId, t) ==
  [status |-> newStatus,
   acknowledged_by |-> IF newStatus = "acknowledged" THEN staffId ELSE UndefinedId,
   acknowledged_at |-> IF newStatus = "acknowledged" THEN t ELSE UndefinedTime,
   completed_at |-> IF newStatus = "completed" THEN t ELSE UndefinedTime,
   updated_at |-> t]

\* The columns of the payload that reach the table: JSON.stringify drops the
\* undefined ones.
WrittenColumns(u) ==
  {"status", "updated_at"}
    \cup (IF u.acknowledged_by # UndefinedId THEN {"acknowledged_by"} ELSE {})
    \cup (IF u.acknowledged_at # UndefinedTime THEN {"acknowledged_at"} ELSE {})
    \cup (IF u.completed_at # UndefinedTime THEN {"completed_at"} ELSE {})

\* The stamp columns of a row after update(u).
StampsAfter(row, u) ==
  [acknowledged_by |-> IF u.acknowledged_by # UndefinedId
                       THEN u.acknowledged_by ELSE row.acknowledged_by,
   acknowledged_at |-> IF u.acknowledged_at # UndefinedTime
                       THEN u.acknowledged_at ELSE row.acknowledged_at,
   completed_at |-> IF u.completed_at # UndefinedTime
                    THEN u.completed_at ELSE row.completed_at,
   updated_at |-> u.updated_at]

\* A customer sends a service request from the menu page: a row in status
\* pending, an INSERT event.
CreateRequest(id) ==
  /\ reqDb[id] = "none"
  /\ reqDb' = [reqDb EXCEPT ![id] = "pending"]
  /\ reqEvents' = reqEvents \cup {RequestEvent("INSERT", id, "pending")}
  /\ UNCHANGED <<posVars, custVars, extVars, serviceRequests, reqFetchResp, reqResp, reqStamps>>

\* A row is deleted from service_requests: a DELETE event carrying old.id.
DeleteRequest(id) ==
  /\ reqDb[id] \in RequestStatuses
  /\ reqDb' = [reqDb EXCEPT ![id] = "deleted"]
  /\ reqEvents' = reqEvents \cup {RequestEvent("DELETE", id, "deleted")}
  /\ UNCHANGED <<posVars, custVars, extVars, serviceRequests, reqFetchResp, reqResp, reqStamps>>

\* StaffOrdersPage, callback of the 'staff-requests' channel.
OnRequestEvent(prev, e) ==
  IF e.eventType = "INSERT" THEN <<RequestRow(e)>> \o prev
  ELSE IF e.eventType = "UPDATE" THEN
    IF e.status = "completed"
    THEN SelectSeq(prev, LAMBDA q : q.id # e.id)
    ELSE [i \in DOMAIN prev |-> IF prev[i].id = e.id THEN RequestRow(e) ELSE prev[i]]
  ELSE SelectSeq(prev, LAMBDA q : q.id # e.id)

\* A requests callback that plays the new-order pattern.
RequestEventOutput_OrderPattern(type) ==
  IF type = "INSERT" THEN PlayNotification("staff", "order", FALSE) ELSE NoOutput

\* What the requests callback makes the device play: playNotification('request')
\* in the INSERT branch only.
RequestEventOutput(type) ==
  IF type = "INSERT" THEN PlayNotification("staff", "request", FALSE) ELSE NoOutput

\* The tab the requests callback leaves: "Auto-switch to requests tab".
TabAfterRequestEvent(type, tab) == IF type = "INSERT" THEN "requests" ELSE tab

DeliverRequestEvent(e) ==
  /\ Subscribed
  /\ role = "staff"
  /\ e \in reqEvents
  /\ e.eventType = "INSERT" => Len(serviceRequests) < MaxReqView
  /\ serviceRequests' = OnRequestEvent(serviceRequests, e)
  /\ played' = RequestEventOutput(e.eventType)
  /\ activeTab' = TabAfterRequestEvent(e.eventType, activeTab)
  /\ UNCHANGED <<srvVars, role, viewVars, sessVars, chanVars, custVars, extVars,
                 soundEnabled, vibrationEnabled, audio,
                 reqDb, reqEvents, reqFetchResp, reqResp, reqStamps>>

\* select('*') ... in('status', ['pending', 'acknowledged']), newest first.
RECURSIVE RequestRowsFrom(_)
RequestRowsFrom(n) ==
  IF n = 0 THEN <<>>
  ELSE (IF reqDb[n] \in {"pending", "acknowledged"}
        THEN <<[id |-> n, status |-> reqDb[n]]>> ELSE <<>>) \o RequestRowsFrom(n - 1)

\* fetchServiceRequests: the query reaches the table, the response is in flight.
FetchServiceRequests ==
  /\ page = "pos" /\ session # None
  /\ role = "staff"
  /\ reqFetchResp = None
  /\ reqFetchResp' = [kind |-> "requests", data |-> RequestRowsFrom(NumRequests)]
  /\ UNCHANGED <<posVars, custVars, extVars, reqDb, reqEvents, serviceRequests, reqResp, reqStamps>>

FetchServiceRequestsDone ==
  /\ reqFetchResp # None
  /\ serviceRequests' = reqFetchResp.data
  /\ reqFetchResp' = None
  /\ UNCHANGED <<posVars, custVars, extVars, reqDb, reqEvents, reqResp, reqStamps>>

\* The buttons of a request card: Acknowledge while pending, Complete always.
RequestButtons(status) ==
  (IF status = "pending" THEN {"acknowledged"} ELSE {}) \cup {"completed"}

\* updateRequestStatus(requestId, newStatus) from a button of the i-th card:
\* update(...).eq('id', requestId) on table service_requests; the table takes
\* the new status whatever the stored one is, unless the call returns an error.
UpdateRequestStatus(i, newStatus) ==
  /\ page = "pos" /\ session # None
  /\ role = "staff"
  /\ reqResp = None
  /\ i \in DOMAIN serviceRequests
  /\ newStatus \in RequestButtons(serviceRequests[i].status)
  /\ \E error \in BOOLEAN :
       LET id == serviceRequests[i].id
           u  == RequestUpdate(newStatus, StaffId, now)
       IN /\ reqResp' = [kind |-> "request", requestId |-> id,
                         newStatus |-> newStatus, error |-> error]
          /\ IF ~error /\ reqDb[id] \in RequestStatuses
             THEN /\ reqDb' = [reqDb EXCEPT ![id] = u.status]
                  /\ reqStamps' = [reqStamps EXCEPT ![id] = StampsAfter(@, u)]
                  /\ reqEvents' = reqEvents \cup {RequestEvent("UPDATE", id, newStatus)}
             ELSE UNCHANGED <<reqDb, reqStamps, reqEvents>>
  /\ UNCHANGED <<posVars, custVars, extVars, serviceRequests, reqFetchResp>>

\* Another staff screen, whose list still shows the request (as pending for
\* Acknowledge), runs the same updateRequestStatus.
UpdateRequestElsewhere(id, newStatus) ==
  /\ reqDb[id] \in RequestStatuses
  /\ newStatus \in RequestButtons("pending")
  /\ LET u == RequestUpdate(newStatus, OtherStaffId, now)
     IN /\ reqDb' = [reqDb EXCEPT ![id] = u.status]
        /\ reqStamps' = [reqStamps EXCEPT ![id] = StampsAfter(@, u)]
        /\ reqEvents' = reqEvents \cup {RequestEvent("UPDATE", id, newStatus)}
  /\ UNCHANGED <<posVars, custVars, extVars, serviceRequests, reqFetchResp, reqResp>>

\* const pendingRequestsCount = serviceRequests.filter(r => r.status === 'pending').length
PendingRequestsCount(list) == Len(SelectSeq(list, LAMBDA r : r.status = "pending"))

\* updateRequestStatus without its !error test.
AfterRequestResponse_IgnoreError(prev, r) ==
  IF r.newStatus = "completed"
  THEN SelectSeq(prev, LAMBDA q : q.id # r.requestId)
  ELSE prev

\* updateRequestStatus without its removal of a completed request.
AfterRequestResponse_NoRemoval(prev, r) == prev

\* The list updateRequestStatus leaves once the call has returned.
AfterRequestResponse(prev, r) ==
  IF ~r.error /\ r.newStatus = "completed"
  THEN SelectSeq(prev, LAMBDA q : q.id # r.requestId)
  ELSE prev

UpdateRequestStatusDone ==
  /\ reqResp # None
  /\ serviceRequests' = AfterRequestResponse(serviceRequests, reqResp)
  /\ reqResp' = None
  /\ UNCHANGED <<posVars, custVars, extVars, reqDb, reqEvents, reqFetchResp, reqStamps>>

\* The call throws: the catch only logs.
UpdateRequestStatusFail ==
  /\ reqResp # None
  /\ reqResp' = None
  /\ UNCHANGED <<posVars, custVars, extVars, reqDb, reqEvents, serviceRequests, reqFetchResp, reqStamps>>

\* ------------------------------------------------------- customer menu page
\* Text typed into a form field: a sequence of characters.
TableTexts   == {<<>>, <<" ">>, <<"5">>}
NameTexts    == {<<>>, <<" ">>, <<"a">>}
AddressTexts == {<<>>, <<" ">>, <<"a">>, <<"b">>}

\* String.prototype.trim(): leading and trailing white space removed.
RECURSIVE TrimStart(_)
TrimStart(t) == IF t # <<>> /\ Head(t) = " " THEN TrimStart(Tail(t)) ELSE t

RECURSIVE TrimEnd(_)
TrimEnd(t) ==
  IF t # <<>> /\ t[Len(t)] = " " THEN TrimEnd(SubSeq(t, 1, Len(t) - 1)) ELSE t

Trim(t) == TrimEnd(TrimStart(t))

ServiceTypes == {"dine_in", "pickup", "delivery"}

\* latitude / longitude: number | null.
Coordinates == {"null", "0", "174.76"}

\* JavaScript truthiness of a coordinate: null and 0 are falsy.
Truthy(x) == x # "null" /\ x # "0"

\* delivery_fee: number | null.
NullFee == 0 - 1

\* Rate tiers as the menu endpoint may return them (any order).
RateTables ==
  { <<>>,
    <<[distance_km |-> 1, price |-> 3]>>,
    <<[distance_km |-> 2, price |-> 5], [distance_km |-> 1, price |-> 3]>> }

\* [...data.delivery_rates].sort((a, b) => a.distance_km - b.distance_km)
RECURSIVE InsertRate(_, _)
InsertRate(r, sorted) ==
  IF sorted = <<>> THEN <<r>>
  ELSE IF r.distance_km < Head(sorted).distance_km THEN <<r>> \o sorted
  ELSE <<Head(sorted)>> \o InsertRate(r, Tail(sorted))

RECURSIVE SortRates(_)
SortRates(rates) ==
  IF rates = <<>> THEN <<>>
  ELSE InsertRate(rates[Len(rates)], SortRates(SubSeq(rates, 1, Len(rates) - 1)))

\* Carts as localStorage may hold them when the page mounts.
SampleCarts ==
  { <<[menu_id |-> 1, price |-> 6, quantity |-> 2], [menu_id |-> 2, price |-> 8, quantity |-> 1]>>,
    <<[menu_id |-> 1, price |-> 7, quantity |-> 1]>> }

\* getSubtotal with the quantity left out.
RECURSIVE GetSubtotal_NoQuantity(_)
GetSubtotal_NoQuantity(items) ==
  IF items = <<>> THEN 0
  ELSE items[Len(items)].price + GetSubtotal_NoQuantity(SubSeq(items, 1, Len(items) - 1))

\* getSubtotal: cart.reduce((sum, item) => sum + item.price * item.quantity, 0)
RECURSIVE GetSubtotal(_)
GetSubtotal(items) ==
  IF items = <<>> THEN 0
  ELSE GetSubtotal(SubSeq(items, 1, Len(items) - 1))
       + items[Len(items)].price * items[Len(items)].quantity

GetDeliveryFee == IF serviceType = "delivery" THEN selectedDeliveryFee ELSE 0

GetTotalPrice == GetSubtotal(cart) + GetDeliveryFee

NoAlert == ""

\* The cart panel with the order form is rendered and can be used.
FormOpen ==
  /\ cart # <<>>
  /\ ~orderPlaced
  /\ alertMsg = NoAlert
  /\ Len(placedOrders) < MaxPlaced + Len(placeResps)

\* The form fields take input while no order request is in flight.
FormEditable == FormOpen /\ placeResps = <<>>

SetServiceType(t) ==
  /\ FormEditable
  /\ serviceType' = t
  /\ UNCHANGED <<posVars, extVars, reqVars, callVars, customerDetails, cart, deliveryRates, selectedDeliveryFee,
                 restaurantLocation, calculatingDelivery, deliveryCalculation, calcReq,
                 alertMsg, orderPlaced, placeResps, placedOrders>>

\* onChange of the table number, name and phone inputs.
SetDetail(field, t) ==
  /\ FormEditable
  /\ \/ field = "table_no" /\ serviceType = "dine_in" /\ t \in TableTexts
     \/ field \in {"name", "phone"} /\ serviceType # "dine_in" /\ t \in NameTexts
  /\ customerDetails' = [customerDetails EXCEPT ![field] = t]
  /\ UNCHANGED <<posVars, extVars, reqVars, callVars, serviceType, cart, deliveryRates, selectedDeliveryFee,
                 restaurantLocation, calculatingDelivery, deliveryCalculation, calcReq,
                 alertMsg, orderPlaced, placeResps, placedOrders>>

\* onChange of the address textarea: the calculation is reset.
SetAddress(t) ==
  /\ FormEditable
  /\ serviceType = "delivery"
  /\ customerDetails' = [customerDetails EXCEPT !.address = t]
  /\ deliveryCalculation' = None
  /\ UNCHANGED <<posVars, extVars, reqVars, callVars, serviceType, cart, deliveryRates, selectedDeliveryFee,
                 restaurantLocation, calculatingDelivery, calcReq,
                 alertMsg, orderPlaced, placeResps, placedOrders>>

\* The manual "Delivery Distance" select, rendered when the location is not set.
SelectDeliveryRate(i) ==
  /\ FormEditable
  /\ serviceType = "delivery"
  /\ ~Truthy(restaurantLocation.latitude) \/ ~Truthy(restaurantLocation.longitude)
  /\ i \in DOMAIN deliveryRates
  /\ selectedDeliveryFee' = deliveryRates[i].price
  /\ UNCHANGED <<posVars, extVars, reqVars, callVars, serviceType, customerDetails, cart, deliveryRates,
                 restaurantLocation, calculatingDelivery, deliveryCalculation, calcReq,
                 alertMsg, orderPlaced, placeResps, placedOrders>>

\* calculateDeliveryFee without its test of the restaurant location.
CalculateStart_NoLocationGuard(address, location) ==
  IF Trim(address) = <<>> THEN "no_address" ELSE "request"

\* calculateDeliveryFee up to its request: what its two guards decide.
CalculateStart(address, location) ==
  IF Trim(address) = <<>> THEN "no_address"
  ELSE IF ~Truthy(location.latitude) \/ ~Truthy(location.longitude) THEN "no_location"
  ELSE "request"

\* The deliveryCalculation state; for_address records the address text the
\* result was computed for.
Calculation(success, within, fee, km, address) ==
  [kind |-> "calculation", success |-> success, is_within_range |-> within,
   delivery_fee |-> fee, distance_km |-> km, for_address |-> address]

FailedCalculation(address) == Calculation(FALSE, FALSE, NullFee, 0, address)

CalculateButtonShown ==
  /\ Truthy(restaurantLocation.latitude)
  /\ Truthy(restaurantLocation.longitude)
  /\ deliveryRates # <<>>

CalculateButtonDisabled ==
  calculatingDelivery \/ Trim(customerDetails.address) = <<>>

\* calculateDeliveryFee, from the "Calculate Delivery Fee" button, up to the
\* await of its request.
CalculateDeliveryFee ==
  /\ FormEditable
  /\ serviceType = "delivery"
  /\ CalculateButtonShown
  /\ ~CalculateButtonDisabled
  /\ IF CalculateStart(customerDetails.address, restaurantLocation) = "request"
     THEN /\ calculatingDelivery' = TRUE
          /\ deliveryCalculation' = None
          /\ calcReq' = [kind |-> "calculate",
                         customer_address |-> customerDetails.address,
                         delivery_rates |-> deliveryRates]
     ELSE /\ deliveryCalculation' = FailedCalculation(customerDetails.address)
          /\ UNCHANGED <<calculatingDelivery, calcReq>>
  /\ UNCHANGED <<posVars, extVars, reqVars, callVars, serviceType, customerDetails, cart, deliveryRates,
                 selectedDeliveryFee, restaurantLocation,
                 alertMsg, orderPlaced, placeResps, placedOrders>>

\* POST /api/delivery/calculate: the price of the first tier, in the order
\* given, whose distance_km is at least the resolved distance; no fee if none.
RECURSIVE TierFee(_, _)
TierFee(km, rates) ==
  IF rates = <<>> THEN NullFee
  ELSE IF Head(rates).distance_km >= km THEN Head(rates).price
  ELSE TierFee(km, Tail(rates))

\* The response of the calculation service for a resolved distance.
DeliveryCalculate(req, km) ==
  Calculation(TRUE, TierFee(km, req.delivery_rates) # NullFee,
              TierFee(km, req.delivery_rates), km, req.customer_address)

\* calculateDeliveryFee storing the fee of every successful response.
FeeAfterCalculation_Always(prev, data) ==
  IF data.success THEN data.delivery_fee ELSE prev

\* "Update selected delivery fee if within range".
FeeAfterCalculation(prev, data) ==
  IF data.success /\ data.is_within_range /\ data.delivery_fee # NullFee
  THEN data.delivery_fee
  ELSE prev

\* calculateDeliveryFee after the await: the service resolved the address to km
\* kilometres; or (resolved false) data.success is false or the call threw.
CalculateDeliveryFeeDone(resolved, km) ==
  /\ calcReq # None
  /\ alertMsg = NoAlert
  /\ LET data == IF resolved
                 THEN DeliveryCalculate(calcReq, km)
                 ELSE FailedCalculation(calcReq.customer_address)
     IN /\ deliveryCalculation' = data
        /\ selectedDeliveryFee' = FeeAfterCalculation(selectedDeliveryFee, data)
  /\ calculatingDelivery' = FALSE
  /\ calcReq' = None
  /\ UNCHANGED <<posVars, extVars, reqVars, callVars, serviceType, customerDetails, cart, deliveryRates,
                 restaurantLocation, alertMsg, orderPlaced, placeResps, placedOrders>>

\* handlePlaceOrder without the test of the table number.
ValidationAlert_NoTableTest(type, details, location, rates, calc) ==
  IF type # "dine_in" /\ Trim(details.name) = <<>> THEN "Please enter your name"
  ELSE IF type # "dine_in" /\ Trim(details.phone) = <<>> THEN "Please enter your phone number"
  ELSE IF type = "delivery" /\ Trim(details.address) = <<>> THEN "Please enter delivery address"
  ELSE IF /\ type = "delivery"
          /\ Truthy(location.latitude) /\ Truthy(location.longitude) /\ rates # <<>>
          /\ calc = None
  THEN "Please click \"Calculate Delivery Fee\" to check if we can deliver to your address"
  ELSE IF /\ type = "delivery"
          /\ Truthy(location.latitude) /\ Truthy(location.longitude) /\ rates # <<>>
          /\ ~calc.is_within_range
  THEN "Sorry, your address is outside our delivery range"
  ELSE NoAlert

\* handlePlaceOrder, "Validation based on service type": the alert it shows
\* before it returns, NoAlert when it goes on to send the order.
ValidationAlert(type, details, location, rates, calc) ==
  IF type = "dine_in" /\ Trim(details.table_no) = <<>> THEN "Please enter table number"
  ELSE IF type # "dine_in" /\ Trim(details.name) = <<>> THEN "Please enter your name"
  ELSE IF type # "dine_in" /\ Trim(details.phone) = <<>> THEN "Please enter your phone number"
  ELSE IF type = "delivery" /\ Trim(details.address) = <<>> THEN "Please enter delivery address"
  ELSE IF /\ type = "delivery"
          /\ Truthy(location.latitude) /\ Truthy(location.longitude) /\ rates # <<>>
          /\ calc = None
  THEN "Please click \"Calculate Delivery Fee\" to check if we can deliver to your address"
  ELSE IF /\ type = "delivery"
          /\ Truthy(location.latitude) /\ Truthy(location.longitude) /\ rates # <<>>
          /\ ~calc.is_within_range
  THEN "Sorry, your address is outside our delivery range"
  ELSE NoAlert

\* A Place Order button that is never disabled.
PlaceOrderDisabled_Never == FALSE

\* The disabled condition of the Place Order button.
PlaceOrderDisabled ==
  /\ serviceType = "delivery"
  /\ restaurantLocation.latitude # "null"
  /\ restaurantLocation.longitude # "null"
  /\ deliveryRates # <<>>
  /\ deliveryCalculation = None \/ ~deliveryCalculation.is_within_range

\* A body field that is sent as null.
NullText == <<"null">>

\* The JSON body of POST /api/orders; `calculation` records the
\* deliveryCalculation state the order was submitted under.
OrderBody ==
  [items |-> cart,
   service_type |-> serviceType,
   table_no |-> IF serviceType = "dine_in" THEN customerDetails.table_no ELSE NullText,
   customer_name |-> IF serviceType # "dine_in" THEN customerDetails.name ELSE NullText,
   customer_phone |-> IF serviceType # "dine_in" THEN customerDetails.phone ELSE NullText,
   address |-> IF serviceType = "delivery" THEN customerDetails.address ELSE NullText,
   tax |-> 0,
   delivery_fee |-> IF serviceType = "delivery" THEN GetDeliveryFee ELSE 0,
   subtotal |-> GetSubtotal(cart),
   calculation |-> deliveryCalculation]

\* createOrder of the storage service: the order as stored.
CreatedOrder(body, id) ==
  [id |-> id, status |-> "pending", body |-> body,
   subtotal |-> body.subtotal, delivery_fee |-> body.delivery_fee, tax |-> body.tax,
   total_price |-> body.subtotal + body.delivery_fee + body.tax]

\* handlePlaceOrder, from the Place Order button, up to the await of its
\* request: either an alert and return, or the request is sent and the
\* storage service creates the order (or fails to).
HandlePlaceOrder ==
  /\ FormOpen
  /\ ~PlaceOrderDisabled
  /\ Len(placeResps) < MaxInFlight
  /\ LET msg == ValidationAlert(serviceType, customerDetails, restaurantLocation,
                                deliveryRates, deliveryCalculation)
     IN IF msg # NoAlert
        THEN /\ alertMsg' = msg
             /\ UNCHANGED <<placeResps, placedOrders>>
        ELSE /\ \E success \in BOOLEAN :
                  /\ placeResps' = Append(placeResps, [kind |-> "placed", success |-> success])
                  /\ placedOrders' =
                       IF success
                       THEN Append(placedOrders, CreatedOrder(OrderBody, Len(placedOrders) + 1))
                       ELSE placedOrders
             /\ UNCHANGED alertMsg
  /\ UNCHANGED <<posVars, extVars, reqVars, callVars, serviceType, customerDetails, cart, deliveryRates,
                 selectedDeliveryFee, restaurantLocation, calculatingDelivery,
                 deliveryCalculation, calcReq, orderPlaced>>

PlaceFailedAlert == "Failed to place order. Please try again."

\* handlePlaceOrder after the await, with data.success true or false.
HandlePlaceOrderDone ==
  /\ placeResps # <<>>
  /\ alertMsg = NoAlert
  /\ IF Head(placeResps).success
     THEN /\ orderPlaced' = TRUE
          /\ cart' = <<>>
          /\ UNCHANGED alertMsg
     ELSE /\ alertMsg' = PlaceFailedAlert
          /\ UNCHANGED <<orderPlaced, cart>>
  /\ placeResps' = Tail(placeResps)
  /\ UNCHANGED <<posVars, extVars, reqVars, callVars, serviceType, customerDetails, deliveryRates,
                 selectedDeliveryFee, restaurantLocation, calculatingDelivery,
                 deliveryCalculation, calcReq, placedOrders>>

\* The request throws: the catch shows the same alert.
HandlePlaceOrderFail ==
  /\ placeResps # <<>>
  /\ alertMsg = NoAlert
  /\ alertMsg' = PlaceFailedAlert
  /\ placeResps' = Tail(placeResps)
  /\ UNCHANGED <<posVars, extVars, reqVars, callVars, serviceType, customerDetails, cart, deliveryRates,
                 selectedDeliveryFee, restaurantLocation, calculatingDelivery,
                 deliveryCalculation, calcReq, orderPlaced, placedOrders>>

\* The customer closes the alert() dialog.
DismissAlert ==
  /\ alertMsg # NoAlert
  /\ alertMsg' = NoAlert
  /\ UNCHANGED <<posVars, extVars, reqVars, callVars, serviceType, customerDetails, cart, deliveryRates,
                 selectedDeliveryFee, restaurantLocation, calculatingDelivery,
                 deliveryCalculation, calcReq, orderPlaced, placeResps, placedOrders>>

\* ------------------------------------------------------- cart, item modal
\* The menu of the restaurant as fetchMenus stores it: price texts, meat
\* options and add-ons by name.
MenuIds == {1, 2}

Menus ==
  [id \in MenuIds |->
     IF id = 1
     THEN [price |-> "6",
           meats |-> {[name |-> "chicken", price |-> "0"], [name |-> "tofu", price |-> "free"],
                      [name |-> "pork", price |-> "2"]},
           addOns |-> {[name |-> "egg", price |-> "1"]}]
     ELSE [price |-> "8", meats |-> {}, addOns |-> {}]]

\* parseFloat over the price texts of the menu; NaN is not met, 'free' is
\* tested before the call.
ParseFloat(text) ==
  CASE text = "0" -> 0 [] text = "1" -> 1 [] text = "2" -> 2
    [] text = "6" -> 6 [] text = "8" -> 8

MeatNames(id) == {m.name : m \in Menus[id].meats}

AddOnNames(id) == {a.name : a \in Menus[id].addOns}

NoteTexts == {"", "no chili"}

\* What one unit costs: the base price, the price of the selected meat unless
\* it is '0' or 'free', and the price of every selected add-on.
RECURSIVE SumAddOns(_, _)
SumAddOns(id, names) ==
  IF names = {} THEN 0
  ELSE LET n == CHOOSE x \in names : TRUE
           a == CHOOSE x \in Menus[id].addOns : x.name = n
       IN ParseFloat(a.price) + SumAddOns(id, names \ {n})

MeatPrice(id, meat) ==
  IF meat # "" /\ meat \in MeatNames(id)
  THEN LET m == CHOOSE x \in Menus[id].meats : x.name = meat
       IN IF m.price # "0" /\ m.price # "free" THEN ParseFloat(m.price) ELSE 0
  ELSE 0

\* ItemModal.calculatePrice: the total the modal displays.
CalculatePrice(id, meat, addOns, quantity) ==
  ParseFloat(Menus[id].price) * quantity
    + MeatPrice(id, meat) * quantity
    + SumAddOns(id, addOns \cap AddOnNames(id)) * quantity

\* The cartItem addToCart builds: quantity 1, the price of one unit.
CartItem(id, meat, addOns, notes) ==
  [menu_id |-> id,
   price |-> ParseFloat(Menus[id].price) + MeatPrice(id, meat)
               + SumAddOns(id, addOns \cap AddOnNames(id)),
   quantity |-> 1,
   selectedMeat |-> meat, selectedAddOns |-> addOns, notes |-> notes]

\* The ItemModal is not rendered.
ClosedModal ==
  [open |-> FALSE, menu_id |-> 1, selectedMeat |-> "", selectedAddOns |-> {},
   notes |-> "", quantity |-> 1]

\* openItemModal(menu): the modal mounts with its initial states.
OpenItemModal(id) ==
  /\ ~itemModal.open
  /\ ~orderPlaced
  /\ itemModal' = [ClosedModal EXCEPT !.open = TRUE, !.menu_id = id]
  /\ UNCHANGED <<posVars, reqVars, custVars, pinVars, trackVars, cashVars>>

\* onClose of the modal.
CloseItemModal ==
  /\ itemModal.open
  /\ itemModal' = ClosedModal
  /\ UNCHANGED <<posVars, reqVars, custVars, pinVars, trackVars, cashVars>>

\* setSelectedMeat, from a meat option of the menu shown.
SetSelectedMeat(meat) ==
  /\ itemModal.open
  /\ meat \in MeatNames(itemModal.menu_id)
  /\ itemModal' = [itemModal EXCEPT !.selectedMeat = meat]
  /\ UNCHANGED <<posVars, reqVars, custVars, pinVars, trackVars, cashVars>>

\* An add-on of the menu shown is ticked or unticked.
ToggleAddOn(name) ==
  /\ itemModal.open
  /\ name \in AddOnNames(itemModal.menu_id)
  /\ itemModal' = [itemModal EXCEPT !.selectedAddOns =
                     IF name \in @ THEN @ \ {name} ELSE @ \cup {name}]
  /\ UNCHANGED <<posVars, reqVars, custVars, pinVars, trackVars, cashVars>>

\* setNotes
SetNotes(text) ==
  /\ itemModal.open
  /\ itemModal' = [itemModal EXCEPT !.notes = text]
  /\ UNCHANGED <<posVars, reqVars, custVars, pinVars, trackVars, cashVars>>

Max(a, b) == IF a >= b THEN a ELSE b

\* The - and + buttons of the modal: setQuantity(Math.max(1, quantity - 1)),
\* setQuantity(quantity + 1).
SetQuantity(delta) ==
  /\ itemModal.open
  /\ itemModal.quantity + delta <= MaxQty
  /\ itemModal' = [itemModal EXCEPT !.quantity = Max(1, @ + delta)]
  /\ UNCHANGED <<posVars, reqVars, custVars, pinVars, trackVars, cashVars>>

\* ItemModal.handleAddToCart: onAddToCart is called `quantity` times within
\* one event; every call runs addToCart of the same render, whose
\* setCart([...cart, cartItem]) spreads the `cart` of that render
\* (`rendered`), not the value the call before has set (`current`).
RECURSIVE AddToCartTimes(_, _, _, _)
AddToCartTimes(n, rendered, current, item) ==
  IF n = 0 THEN current
  ELSE AddToCartTimes(n - 1, rendered, Append(rendered, item), item)

\* The Add to Cart button of the modal; addToCart closes the modal.
HandleAddToCart ==
  /\ itemModal.open
  /\ Len(cart) < MaxCart
  /\ cart' = AddToCartTimes(itemModal.quantity, cart, cart,
                            CartItem(itemModal.menu_id, itemModal.selectedMeat,
                                     itemModal.selectedAddOns, itemModal.notes))
  /\ itemModal' = ClosedModal
  /\ UNCHANGED <<posVars, reqVars, callVars, pinVars, trackVars, cashVars, serviceType, customerDetails, deliveryRates,
                 selectedDeliveryFee, restaurantLocation, calculatingDelivery,
                 deliveryCalculation, calcReq, alertMsg, orderPlaced, placeResps,
                 placedOrders>>

\* updateQuantity(menuId, delta)
UpdateQuantity(items, menuId, delta) ==
  [i \in DOMAIN items |->
     IF items[i].menu_id = menuId
     THEN [items[i] EXCEPT !.quantity = Max(1, @ + delta)]
     ELSE items[i]]

\* removeFromCart(menuId)
RemoveFromCart(items, menuId) == SelectSeq(items, LAMBDA item : item.menu_id # menuId)

\* The - and + buttons of cart line i: updateQuantity(item.menu_id, -1 | 1).
UpdateLineQuantity(i, delta) ==
  /\ i \in DOMAIN cart
  /\ ~orderPlaced
  /\ cart[i].quantity + delta <= MaxQty
  /\ cart' = UpdateQuantity(cart, cart[i].menu_id, delta)
  /\ UNCHANGED <<posVars, reqVars, callVars, extVars, serviceType, customerDetails,
                 deliveryRates, selectedDeliveryFee, restaurantLocation, calculatingDelivery,
                 deliveryCalculation, calcReq, alertMsg, orderPlaced, placeResps,
                 placedOrders>>

\* The remove button of cart line i: removeFromCart(item.menu_id).
RemoveLine(i) ==
  /\ i \in DOMAIN cart
  /\ ~orderPlaced
  /\ cart' = RemoveFromCart(cart, cart[i].menu_id)
  /\ UNCHANGED <<posVars, reqVars, callVars, extVars, serviceType, customerDetails,
                 deliveryRates, selectedDeliveryFee, restaurantLocation, calculatingDelivery,
                 deliveryCalculation, calcReq, alertMsg, orderPlaced, placeResps,
                 placedOrders>>

\* ------------------------------------------------- service request modal
\* SERVICE_REQUEST_TYPES, by id.
ServiceRequestTypes ==
  {"call_waiter", "request_sauce", "request_water", "request_bill", "other"}

MessageTexts == {<<>>, <<"m">>}

\* The alerts of handleServiceRequest (shown in Thai by the page).
AlertSelectType == "Please select a request type"

AlertTableFirst == "Please enter the table number before calling staff"

AlertRequestFailed == "An error occurred, please try again"

\* The modal shows its form: no success panel, no alert() dialog open.
ModalOpen == ~requestSent /\ alertMsg = NoAlert

\* A type button of the modal.
SetRequestType(t) ==
  /\ ModalOpen
  /\ ~sendingRequest
  /\ selectedRequestType' = t
  /\ UNCHANGED <<posVars, extVars, reqVars, formVars, customerDetails, alertMsg,
                 customMessage, sendingRequest, requestSent, sentRequests>>

\* The message textarea, rendered once a type is selected.
SetCustomMessage(t) ==
  /\ ModalOpen
  /\ selectedRequestType # ""
  /\ customMessage' = t
  /\ UNCHANGED <<posVars, extVars, reqVars, formVars, customerDetails, alertMsg,
                 selectedRequestType, sendingRequest, requestSent, sentRequests>>

\* The table number input of the modal.
SetCallTableNo(t) ==
  /\ ModalOpen
  /\ customerDetails' = [customerDetails EXCEPT !.table_no = t]
  /\ UNCHANGED <<posVars, extVars, reqVars, formVars, alertMsg, callVars>>

\* handleServiceRequest without its test of the table number.
ServiceRequestAlert_NoTableTest(type, table) ==
  IF type = "" THEN AlertSelectType ELSE NoAlert

\* handleServiceRequest, its two tests: the alert it shows before it returns,
\* NoAlert when it goes on to send the request.
ServiceRequestAlert(type, table) ==
  IF type = "" THEN AlertSelectType
  ELSE IF Trim(table) = <<>> THEN AlertTableFirst
  ELSE NoAlert

\* The disabled condition of the Send Request button.
SendRequestDisabled ==
  selectedRequestType = "" \/ Trim(customerDetails.table_no) = <<>> \/ sendingRequest

\* The JSON body of POST /api/service-requests.
ServiceRequestBody ==
  [table_no |-> customerDetails.table_no,
   request_type |-> selectedRequestType,
   message |-> IF customMessage = <<>> THEN NullText ELSE customMessage]

\* handleServiceRequest up to the await of its request, run on any state of
\* the form in which no request is in flight.
HandleServiceRequest ==
  /\ ModalOpen
  /\ ~sendingRequest
  /\ Len(sentRequests) < MaxSent
  /\ LET msg == ServiceRequestAlert(selectedRequestType, customerDetails.table_no)
     IN IF msg # NoAlert
        THEN /\ alertMsg' = msg
             /\ UNCHANGED <<sendingRequest, sentRequests>>
        ELSE /\ sendingRequest' = TRUE
             /\ sentRequests' = Append(sentRequests, ServiceRequestBody)
             /\ UNCHANGED alertMsg
  /\ UNCHANGED <<posVars, extVars, reqVars, formVars, customerDetails,
                 selectedRequestType, customMessage, requestSent>>

\* handleServiceRequest after the await, with data.success true or false.
HandleServiceRequestDone(success) ==
  /\ sendingRequest
  /\ alertMsg = NoAlert
  /\ IF success
     THEN requestSent' = TRUE /\ UNCHANGED alertMsg
     ELSE alertMsg' = AlertRequestFailed /\ UNCHANGED requestSent
  /\ sendingRequest' = FALSE
  /\ UNCHANGED <<posVars, extVars, reqVars, formVars, customerDetails,
                 selectedRequestType, customMessage, sentRequests>>

\* The request throws: the catch shows the same alert.
HandleServiceRequestFail ==
  /\ sendingRequest
  /\ alertMsg = NoAlert
  /\ alertMsg' = AlertRequestFailed
  /\ sendingRequest' = FALSE
  /\ UNCHANGED <<posVars, extVars, reqVars, formVars, customerDetails,
                 selectedRequestType, customMessage, requestSent, sentRequests>>

\* The 3 s timer set on success: "Reset after 3 seconds".
ResetServiceModal ==
  /\ requestSent
  /\ requestSent' = FALSE
  /\ selectedRequestType' = ""
  /\ customMessage' = <<>>
  /\ UNCHANGED <<posVars, extVars, reqVars, formVars, customerDetails, alertMsg,
                 sendingRequest, sentRequests>>

\* ------------------------------------------------------------ specification
\* A POS page with a valid session and a joined channel, mounted over a
\* restaurant whose orders may already be under way; the list is still empty.
InitView ==
  /\ clock = 0
  /\ events = {}
  /\ role \in Roles
  /\ orders = <<>>
  /\ alerts = [id \in OrderIds |-> 0]
  /\ fetchResp = None
  /\ statusResp = None
  /\ delivered = None
  /\ unknown = None
  /\ reqDb = [id \in RequestIds |-> "none"]
  /\ reqEvents = {}
  /\ serviceRequests = <<>>
  /\ reqFetchResp = None
  /\ reqResp = None
  /\ reqStamps = [id \in RequestIds |-> NoStamps]
  /\ payment = [id \in OrderIds |-> "unpaid"]
  /\ soundEnabled = TRUE
  /\ vibrationEnabled = TRUE
  /\ activeTab = "orders"
  /\ played = NoOutput
  /\ missed = {}
  /\ itemModal = ClosedModal
  /\ pin = <<>>
  /\ pinTimers = <<>>
  /\ verifyReq = <<>>
  /\ statusPage = "closed"
  /\ order = NoOrder
  /\ orderError = ""
  /\ orderFetches = {}
  /\ orderEventsSeen = {}
  /\ cashier = "closed"
  /\ selectedDate = Today
  /\ summary = NoSummary
  /\ summaryError = NoError
  /\ refreshing = FALSE
  /\ summaryFetches = {}

\* The service request modal of the customer menu page, not yet used.
NoCall ==
  /\ selectedRequestType = ""
  /\ customMessage = <<>>
  /\ sendingRequest = FALSE
  /\ requestSent = FALSE
  /\ sentRequests = <<>>

\* The state of the customer menu page when fetchMenus has returned: an empty
\* form, the cart of an earlier visit, the restaurant's tiers and location.
InitMenu ==
  /\ serviceType = "dine_in"
  /\ customerDetails = [table_no |-> <<>>, name |-> <<>>, phone |-> <<>>, address |-> <<>>]
  /\ cart \in SampleCarts
  /\ \E table \in RateTables :
       /\ deliveryRates = SortRates(table)
       /\ selectedDeliveryFee = IF table = <<>> THEN 0 ELSE SortRates(table)[1].price
  /\ restaurantLocation \in
       { [latitude |-> "null", longitude |-> "null"],
         [latitude |-> "0", longitude |-> "174.76"],
         [latitude |-> "174.76", longitude |-> "174.76"] }
  /\ calculatingDelivery = FALSE
  /\ deliveryCalculation = None
  /\ calcReq = None
  /\ alertMsg = NoAlert
  /\ orderPlaced = FALSE
  /\ placeResps = <<>>
  /\ placedOrders = <<>>
  /\ NoCall

\* No customer has the menu page open.
NoCustomer ==
  /\ serviceType = "dine_in"
  /\ customerDetails = [table_no |-> <<>>, name |-> <<>>, phone |-> <<>>, address |-> <<>>]
  /\ cart = <<>>
  /\ deliveryRates = <<>>
  /\ selectedDeliveryFee = 0
  /\ restaurantLocation = [latitude |-> "null", longitude |-> "null"]
  /\ calculatingDelivery = FALSE
  /\ deliveryCalculation = None
  /\ calcReq = None
  /\ alertMsg = NoAlert
  /\ orderPlaced = FALSE
  /\ placeResps = <<>>
  /\ placedOrders = <<>>
  /\ NoCall

Init ==
  /\ InitView
  /\ NoCustomer
  /\ db \in [OrderIds -> {[status |-> s, updated_at |-> 0] : s \in {"none"} \cup ActiveStatuses}]
  /\ now = 0
  /\ page = "pos"
  /\ stored = SessionOf(0)
  /\ session = SessionOf(0)
  /\ chan = "joined"
  /\ sync = "synced"
  /\ audio = "synth"

Next ==
  \/ \E id \in OrderIds : CreateOrder(id)
  \/ \E id \in OrderIds : \E s \in Statuses : SetStatusElsewhere(id, s)
  \/ \E id \in OrderIds : DeleteOrder(id)
  \/ \E e \in events : DeliverOrderEvent(e)
  \/ FetchOrders
  \/ FetchOrdersDone
  \/ FetchOrdersFail
  \/ \E i \in 1 .. MaxView : \E s \in Statuses : UpdateOrderStatus(i, s)
  \/ UpdateOrderStatusDone
  \/ UpdateOrderStatusFail

Spec == Init /\ [][Next]_vars

\* A restaurant with no orders yet.
NoOrdersYet == db = [id \in OrderIds |-> [status |-> "none", updated_at |-> 0]]

\* The POS screens from the login page on, with the wall clock running.
InitSession ==
  /\ InitView
  /\ NoCustomer
  /\ NoOrdersYet
  /\ now = 0
  /\ page = "login"
  /\ stored = None
  /\ session = None
  /\ chan = "joined"
  /\ sync = "synced"
  /\ audio = "synth"

NextSession ==
  \/ Next
  \/ HandlePinSubmit
  \/ CheckSession
  \/ HandleLogout
  \/ Tick

SpecSession == InitSession /\ [][NextSession]_vars

\* The PIN step of the login page: the number pad, the Enter button and the
\* answer of the staff service.
NextPin ==
  \/ \E digit \in Digits : HandlePinKeyPress(digit)
  \/ HandlePinDelete
  \/ ClearPin
  \/ AutoSubmit
  \/ PressEnter
  \/ \E success \in BOOLEAN : VerifyPinDone(success)

SpecPin == InitSession /\ [][NextPin]_vars

\* A customer follows an order on the order-status page while the POS
\* screens elsewhere move the orders along.
InitStatus ==
  /\ InitView
  /\ NoCustomer
  /\ db \in [OrderIds -> {[status |-> s, updated_at |-> 0] : s \in {"none"} \cup ActiveStatuses}]
  /\ now = 0
  /\ page = "login"
  /\ stored = None
  /\ session = None
  /\ chan = "joined"
  /\ sync = "synced"
  /\ audio = "synth"

NextStatus ==
  \/ \E id \in OrderIds : CreateOrder(id)
  \/ \E id \in OrderIds : \E s \in Statuses : SetStatusElsewhere(id, s)
  \/ OpenOrderStatus
  \/ \E e \in events : OnOrderStatusEvent(e)
  \/ \E r \in orderFetches : FetchOrderDone(r)

SpecStatus == InitStatus /\ [][NextStatus]_vars

\* The cashier dashboard: its date input, its Refresh button and the
\* answers of the storage service.
NextCashier ==
  \/ OpenCashier
  \/ \E date \in Dates : SetSelectedDate(date)
  \/ RefreshSummary
  \/ \E r \in summaryFetches : \E success \in BOOLEAN : FetchSummaryDone(r, success)

SpecCashier == InitSession /\ [][NextCashier]_vars

\* A mounted POS page whose realtime channel may drop and rejoin.
InitReconnect ==
  /\ InitView
  /\ NoCustomer
  /\ NoOrdersYet
  /\ now = 0
  /\ page = "pos"
  /\ stored = SessionOf(0)
  /\ session = SessionOf(0)
  /\ chan = "joined"
  /\ sync = "synced"
  /\ audio = "synth"

NextReconnect ==
  \/ Next
  \/ ChannelDrop
  \/ ChannelRejoin

SpecReconnect == InitReconnect /\ [][NextReconnect]_vars

\* The staff screen with both of its tabs: the orders found at mount and the
\* service requests of the tables.
InitStaff ==
  /\ InitView
  /\ NoCustomer
  /\ role = "staff"
  /\ db \in [OrderIds -> {[status |-> s, updated_at |-> 0] : s \in {"none", "pending", "ready"}}]
  /\ now = 0
  /\ page = "pos"
  /\ stored = SessionOf(0)
  /\ session = SessionOf(0)
  /\ chan = "joined"
  /\ sync = "synced"
  /\ audio = "synth"

NextStaff ==
  \/ FetchOrders
  \/ FetchOrdersDone
  \/ \E i \in 1 .. MaxView : \E s \in Statuses : UpdateOrderStatus(i, s)
  \/ UpdateOrderStatusDone
  \/ UpdateOrderStatusFail
  \/ \E id \in RequestIds : CreateRequest(id)
  \/ \E e \in reqEvents : DeliverRequestEvent(e)
  \/ FetchServiceRequests
  \/ FetchServiceRequestsDone
  \/ \E i \in 1 .. MaxReqView : \E s \in RequestStatuses : UpdateRequestStatus(i, s)
  \/ UpdateRequestStatusDone
  \/ UpdateRequestStatusFail

SpecStaff == InitStaff /\ [][NextStaff]_vars

\* The requests tab of the staff screen, with a second staff screen acting on
\* the same table and the wall clock running.
InitRequests ==
  /\ InitView
  /\ NoCustomer
  /\ role = "staff"
  /\ NoOrdersYet
  /\ now = 0
  /\ page = "pos"
  /\ stored = SessionOf(0)
  /\ session = SessionOf(0)
  /\ chan = "joined"
  /\ sync = "synced"
  /\ audio = "synth"

NextRequests ==
  \/ \E id \in RequestIds : CreateRequest(id)
  \/ \E e \in reqEvents : DeliverRequestEvent(e)
  \/ FetchServiceRequests
  \/ FetchServiceRequestsDone
  \/ \E i \in 1 .. MaxReqView : \E s \in RequestStatuses : UpdateRequestStatus(i, s)
  \/ UpdateRequestStatusDone
  \/ UpdateRequestStatusFail
  \/ \E id \in RequestIds : \E s \in RequestStatuses : UpdateRequestElsewhere(id, s)
  \/ Tick

SpecRequests == InitRequests /\ [][NextRequests]_vars

\* The customer menu page with its cart panel, over a restaurant whose POS
\* screens are left aside.
InitCheckout ==
  /\ InitView
  /\ role = "staff"
  /\ NoOrdersYet
  /\ now = 0
  /\ page = "login"
  /\ stored = None
  /\ session = None
  /\ chan = "joined"
  /\ sync = "synced"
  /\ audio = "synth"
  /\ InitMenu

NextCheckout ==
  \/ \E t \in ServiceTypes : SetServiceType(t)
  \/ \E f \in {"table_no", "name", "phone"} : \E t \in TableTexts \cup NameTexts : SetDetail(f, t)
  \/ \E t \in AddressTexts : SetAddress(t)
  \/ \E i \in 1 .. 2 : SelectDeliveryRate(i)
  \/ CalculateDeliveryFee
  \/ \E km \in 1 .. MaxDistance : CalculateDeliveryFeeDone(TRUE, km)
  \/ CalculateDeliveryFeeDone(FALSE, 0)
  \/ placeResps = <<>> /\ HandlePlaceOrder
  \/ HandlePlaceOrderDone
  \/ HandlePlaceOrderFail
  \/ DismissAlert

SpecCheckout == InitCheckout /\ [][NextCheckout]_vars

\* The customer menu page with an empty cart: items are picked in the item
\* modal and the lines of the cart panel are changed and removed.
InitCart ==
  /\ InitView
  /\ role = "staff"
  /\ NoOrdersYet
  /\ now = 0
  /\ page = "login"
  /\ stored = None
  /\ session = None
  /\ chan = "joined"
  /\ sync = "synced"
  /\ audio = "synth"
  /\ NoCustomer

NextCart ==
  \/ \E id \in MenuIds : OpenItemModal(id)
  \/ CloseItemModal
  \/ \E meat \in {"chicken", "tofu", "pork"} : SetSelectedMeat(meat)
  \/ \E name \in {"egg"} : ToggleAddOn(name)
  \/ \E text \in NoteTexts : SetNotes(text)
  \/ \E delta \in {0 - 1, 1} : SetQuantity(delta)
  \/ HandleAddToCart
  \/ \E i \in 1 .. MaxCart : \E delta \in {0 - 1, 1} : UpdateLineQuantity(i, delta)
  \/ \E i \in 1 .. MaxCart : RemoveLine(i)

SpecCart == InitCart /\ [][NextCart]_vars

\* The same form under a customer who may press Place Order again before the
\* first request is answered (in SpecCheckout the customer waits).
NextPlace ==
  \/ \E t \in TableTexts : SetDetail("table_no", t)
  \/ HandlePlaceOrder
  \/ HandlePlaceOrderDone
  \/ HandlePlaceOrderFail
  \/ DismissAlert

SpecPlace == InitCheckout /\ [][NextPlace]_vars

\* The kitchen display and the staff screen with their sound controls: the
\* page has just mounted, the audio initialisation effect is under way
\* (kitchen) or has run (staff), and no order or request exists yet.  No
\* order changes while the channels of the page are being replaced.
InitAlerts ==
  /\ InitView
  /\ NoCustomer
  /\ NoOrdersYet
  /\ now = 0
  /\ page = "pos"
  /\ stored = SessionOf(0)
  /\ session = SessionOf(0)
  /\ chan = "joined"
  /\ sync = "synced"
  /\ audio \in (IF role = "kitchen" THEN {"loading"} ELSE {"synth", "none"})

NextAlerts ==
  \/ \E id \in OrderIds : chan = "joined" /\ CreateOrder(id)
  \/ \E id \in OrderIds : \E s \in Statuses : chan = "joined" /\ SetStatusElsewhere(id, s)
  \/ \E id \in OrderIds : chan = "joined" /\ DeleteOrder(id)
  \/ \E e \in events : DeliverOrderEvent(e)
  \/ \E id \in RequestIds : CreateRequest(id)
  \/ \E id \in RequestIds : \E s \in RequestStatuses : UpdateRequestElsewhere(id, s)
  \/ \E id \in RequestIds : DeleteRequest(id)
  \/ \E e \in reqEvents : DeliverRequestEvent(e)
  \/ ToggleSound
  \/ ToggleVibration
  \/ AudioCanPlay
  \/ \E granted \in BOOLEAN : AudioError(granted)
  \/ \E t \in {"orders", "requests"} : SetActiveTab(t)
  \/ SetVolume
  \/ ChannelJoined

SpecAlerts == InitAlerts /\ [][NextAlerts]_vars

\* The kitchen display or the staff screen while orders come in and move on
\* and the sound, vibration and volume controls are used: every use replaces
\* the channels of the page (SpecAlerts leaves the orders alone meanwhile).
InitResubscribe ==
  /\ InitView
  /\ NoCustomer
  /\ NoOrdersYet
  /\ now = 0
  /\ page = "pos"
  /\ stored = SessionOf(0)
  /\ session = SessionOf(0)
  /\ chan = "joined"
  /\ sync = "synced"
  /\ audio = "synth"

NextResubscribe ==
  \/ \E id \in OrderIds : CreateOrder(id)
  \/ \E id \in OrderIds : \E s \in Statuses : SetStatusElsewhere(id, s)
  \/ \E e \in events : DeliverOrderEvent(e)
  \/ ToggleSound
  \/ ToggleVibration
  \/ SetVolume
  \/ ChannelJoined

SpecResubscribe == InitResubscribe /\ [][NextResubscribe]_vars

\* The kitchen display or the staff screen moving orders along while the
\* payment collaborator records payments.
InitPayment ==
  /\ InitView
  /\ NoCustomer
  /\ db \in [OrderIds -> {[status |-> s, updated_at |-> 0] : s \in ActiveStatuses}]
  /\ now = 0
  /\ page = "pos"
  /\ stored = SessionOf(0)
  /\ session = SessionOf(0)
  /\ chan = "joined"
  /\ sync = "synced"
  /\ audio = "synth"

NextPayment ==
  \/ FetchOrders
  \/ FetchOrdersDone
  \/ \E i \in 1 .. MaxView : \E s \in Statuses : UpdateOrderStatus(i, s)
  \/ UpdateOrderStatusDone
  \/ UpdateOrderStatusFail
  \/ \E id \in OrderIds : PaymentElsewhere(id)

SpecPayment == InitPayment /\ [][NextPayment]_vars

\* The service request modal of the customer menu page, over a restaurant
\* whose POS screens are left aside.
InitCall ==
  /\ InitView
  /\ role = "staff"
  /\ NoOrdersYet
  /\ now = 0
  /\ page = "login"
  /\ stored = None
  /\ session = None
  /\ chan = "joined"
  /\ sync = "synced"
  /\ audio = "synth"
  /\ NoCustomer

NextCall ==
  \/ \E t \in ServiceRequestTypes : SetRequestType(t)
  \/ \E t \in MessageTexts : SetCustomMessage(t)
  \/ \E t \in TableTexts : SetCallTableNo(t)
  \/ HandleServiceRequest
  \/ \E success \in BOOLEAN : HandleServiceRequestDone(success)
  \/ HandleServiceRequestFail
  \/ ResetServiceModal
  \/ DismissAlert

SpecCall == InitCall /\ [][NextCall]_vars

\* ------------------------------------------------------------------ claims
InView(list, id) == \E i \in DOMAIN list : list[i].id = id

IsTerminalUpdate(e) == e.eventType = "UPDATE" /\ e.status \in TerminalStatuses

\* C1  Stale-event rejection: an UPDATE event is applied only if its updated_at
\* is not older than that of the copy the view holds; delivering an older
\* UPDATE after a newer one leaves the newer copy in the view.
C1_StaleUpdateRejected ==
  [][\A e \in events :
       (e.eventType = "UPDATE" /\ DeliverOrderEvent(e)) =>
         \A i \in DOMAIN orders :
           (orders[i].id = e.id /\ orders[i].updated_at > e.updated_at) =>
             \E j \in DOMAIN orders' : orders'[j] = orders[i]]_vars

\* C2  Idempotence of apply: for every emitted change event and every view the
\* client reaches, applying the event twice gives the list that applying it
\* once gives.
C2_ApplyIdempotent ==
  \A e \in events :
    OnOrderEvent(role, OnOrderEvent(role, orders, e), e) = OnOrderEvent(role, orders, e)

\* C3  The new-order alert (playNotification) fires at most once per order id,
\* however often the INSERT event of that order is delivered.
C3_AlertOncePerOrder == \A id \in OrderIds : alerts[id] <= 1

\* C4  The active orders list holds at most one entry per order id.
C4_OneEntryPerId ==
  \A i, j \in DOMAIN orders : orders[i].id = orders[j].id => i = j

\* C5  Terminal removal: when the callback handles an UPDATE event whose status
\* is completed or cancelled, the order is absent from the list it leaves; and
\* an order whose stored status is completed or cancelled is still returned by
\* the query by id.
C5_TerminalRemoval ==
  [][/\ \A e \in events :
          (IsTerminalUpdate(e) /\ DeliverOrderEvent(e)) => ~InView(orders', e.id)
     /\ \A id \in OrderIds :
          db'[id].status \in TerminalStatuses =>
            /\ GetOrderById(id)'.ok
            /\ GetOrderById(id)'.order.status = db'[id].status]_vars

\* C5 witness: the callback handled the INSERT of an order and has just handled
\* its terminal-status UPDATE; the order is not in the list and the query by id
\* returns it with that status.
C5_Witness ==
  /\ delivered # None
  /\ IsTerminalUpdate(delivered)
  /\ alerts[delivered.id] > 0
  /\ ~InView(orders, delivered.id)
  /\ db[delivered.id].status = delivered.status
  /\ GetOrderById(delivered.id).ok

\* C6  No active order silently disappears: an order whose INSERT was applied,
\* which is in the list and whose stored status is not terminal, leaves the list
\* only in a step that handles a terminal-status UPDATE or a DELETE event for it
\* (the pages have no channel-degraded state).
C6_NoSilentDisappearance ==
  [][\A id \in OrderIds :
       (/\ alerts[id] > 0
        /\ InView(orders, id)
        /\ ~InView(orders', id)
        /\ db'[id].status \in ActiveStatuses) =>
         \E e \in events :
           /\ e.id = id
           /\ e.eventType = "DELETE" \/ IsTerminalUpdate(e)
           /\ DeliverOrderEvent(e)]_vars

\* C7  After the realtime channel dropped and rejoined, no change event is
\* applied before a snapshot fetch started after the rejoin has completed.
C7_ResyncBeforeResume ==
  [][\A e \in events : DeliverOrderEvent(e) => sync = "synced"]_vars

\* C8  Once the expiry time of the role session has passed, the POS page
\* applies no further change event.
C8_NoEventAfterExpiry ==
  [][\A e \in events :
       DeliverOrderEvent(e) => (session # None /\ ~(session.expires < now))]_vars

\* C9  Every status transition a kitchen or staff client requests goes from the
\* status shown on the card to a status one edge away in the lifecycle graph.
C9_RequestsFollowEdges ==
  statusResp # None => <<statusResp.shown, statusResp.newStatus>> \in Edges

\* C10  On the kitchen display the only target that can be requested for an
\* order shown in status s is the immediate successor of s; preparing is never
\* requested, and never accepted, for an order shown as pending.
C10_KitchenOneStep ==
  (role = "kitchen" /\ statusResp # None) =>
    /\ <<statusResp.shown, statusResp.newStatus>> \in ForwardEdges
    /\ ~(statusResp.shown = "pending" /\ statusResp.newStatus = "preparing")

\* C10 witness: the kitchen has pressed Confirm on a card shown as pending.
C10_Witness ==
  /\ role = "kitchen"
  /\ statusResp # None
  /\ statusResp.shown = "pending"
  /\ statusResp.newStatus = "confirmed"
  /\ statusResp.ok

\* C11  An order has one stored status, and once that status is completed or
\* cancelled no transition request of this client or of any other client
\* changes it: the row keeps its terminal status (until the row is deleted).
C11_TerminalIsFinal ==
  [][\A id \in OrderIds :
       db[id].status \in TerminalStatuses =>
         \/ db'[id] = db[id]
         \/ db'[id].status = "deleted"]_vars

\* C11 witness: the client, on a stale card, has requested a transition of an
\* order another client had already completed or cancelled, and the storage
\* service (still able to write) has rejected it.
C11_Witness ==
  /\ statusResp # None
  /\ ~statusResp.ok
  /\ clock < MaxClock
  /\ db[statusResp.orderId].status \in TerminalStatuses
  /\ statusResp.shown \in ActiveStatuses

\* C12  updateOrderStatus and updateRequestStatus leave the orders list and the
\* service requests list as they are in the step that sends the request, and
\* in the step that takes a response which is not a success (rejected, error)
\* or takes none at all (the call threw).
C12_NoOptimisticMutation ==
  [][/\ (statusResp = None /\ statusResp' # None) =>
          (orders' = orders /\ serviceRequests' = serviceRequests)
     /\ (statusResp # None /\ statusResp' = None /\ ~statusResp.ok) =>
          (orders' = orders /\ serviceRequests' = serviceRequests)
     /\ (statusResp # None /\ unknown' # unknown /\ unknown' # None) =>
          (orders' = orders /\ serviceRequests' = serviceRequests)
     /\ (reqResp = None /\ reqResp' # None) =>
          (orders' = orders /\ serviceRequests' = serviceRequests)
     /\ (reqResp # None /\ reqResp' = None /\ reqResp.error) =>
          (orders' = orders /\ serviceRequests' = serviceRequests)]_vars

\* C12 witness: the request for a terminal order status was rejected by the
\* storage service and the completion of a service request returned an error;
\* both responses are about to be handled and both entries are in their lists.
C12_Witness ==
  /\ statusResp # None
  /\ ~statusResp.ok
  /\ statusResp.newStatus \in TerminalStatuses
  /\ InView(orders, statusResp.orderId)
  /\ reqResp # None
  /\ reqResp.error
  /\ reqResp.newStatus = "completed"
  /\ InView(serviceRequests, reqResp.requestId)

\* C13  After an updateOrderStatus call threw (time-out, network failure) the
\* same transition of the same order is not requested again before a snapshot
\* fetch has completed.
C13_RefetchBeforeRetry ==
  [][\A i \in 1 .. MaxView : \A s \in Statuses :
       UpdateOrderStatus(i, s) =>
         ~(/\ unknown # None
           /\ unknown.orderId = orders[i].id
           /\ unknown.newStatus = s)]_vars

\* C14  The list a snapshot fetch yields holds every order whose stored status
\* is pending, confirmed, preparing or ready at the time of the query.
C14_SnapshotHoldsActiveOrders ==
  [][FetchOrders =>
       \A id \in OrderIds :
         db[id].status \in ActiveStatuses =>
           InView(FetchedOrders(role, fetchResp'.orders), id)]_vars

\* A form field is empty: it holds nothing, or nothing but white space.
Blank(t) == Trim(t) = <<>>

\* The fields the service type requires and the form lacks.
MissingFields ==
  {f \in {"table_no"} : serviceType = "dine_in" /\ Blank(customerDetails[f])}
  \cup {f \in {"name", "phone"} : serviceType # "dine_in" /\ Blank(customerDetails[f])}
  \cup {f \in {"address"} : serviceType = "delivery" /\ Blank(customerDetails[f])}

AlertNaming(f) ==
  CASE f = "table_no" -> "Please enter table number"
    [] f = "name"     -> "Please enter your name"
    [] f = "phone"    -> "Please enter your phone number"
    [] f = "address"  -> "Please enter delivery address"

\* The restaurant publishes a geocoordinate and rate tiers.
PublishesLocation ==
  /\ restaurantLocation.latitude # "null"
  /\ restaurantLocation.longitude # "null"

IsDelivery(o) == o.body.service_type = "delivery"

\* C15  Validation at creation: when a field the service type requires is empty
\* (table_no for dine_in; name or phone for pickup; name, phone or address for
\* delivery), handlePlaceOrder sends no create-order request, no order is
\* created, and the alert it shows names a missing field.
C15_ValidationAtCreation ==
  [][(HandlePlaceOrder /\ MissingFields # {}) =>
       /\ placeResps' = placeResps
       /\ placedOrders' = placedOrders
       /\ alertMsg' \in {AlertNaming(f) : f \in MissingFields}]_vars

\* C15 witness: Place Order was pressed on a delivery form with name and phone
\* filled in and no address; the alert asks for the address, nothing was sent.
C15_Witness ==
  /\ serviceType = "delivery"
  /\ MissingFields = {"address"}
  /\ alertMsg = AlertNaming("address")
  /\ placeResps = <<>>
  /\ placedOrders = <<>>

\* C16  When the restaurant publishes a geocoordinate and rate tiers, every
\* delivery order that was created was submitted under a delivery calculation
\* that succeeded and is within range.
C16_DeliveryGate ==
  \A i \in DOMAIN placedOrders :
    (IsDelivery(placedOrders[i]) /\ PublishesLocation /\ deliveryRates # <<>>) =>
      /\ placedOrders[i].body.calculation # None
      /\ placedOrders[i].body.calculation.success
      /\ placedOrders[i].body.calculation.is_within_range

\* C16 witness: a delivery order created after an in-range calculation, for a
\* restaurant with a location and tiers.
C16_Witness ==
  /\ PublishesLocation
  /\ deliveryRates # <<>>
  /\ placedOrders # <<>>
  /\ IsDelivery(placedOrders[1])
  /\ placedOrders[1].body.calculation # None
  /\ placedOrders[1].body.calculation.is_within_range

\* C17  No delivery order is submitted with a calculation result that was
\* computed for an address text other than the one submitted.
C17_CalculationForSubmittedAddress ==
  \A i \in DOMAIN placedOrders :
    (IsDelivery(placedOrders[i]) /\ placedOrders[i].body.calculation # None) =>
      placedOrders[i].body.calculation.for_address = placedOrders[i].body.address

\* C18  With the restaurant geocoordinate absent, calculateDeliveryFee sends no
\* request for any address and none is in flight; and a delivery order that
\* handlePlaceOrder gets created has name, phone and address filled in and
\* carries the selected delivery fee, the price of a tier when the restaurant
\* has tiers.
C18_ManualFallback ==
  [][~PublishesLocation =>
       /\ \A a \in AddressTexts : CalculateStart(a, restaurantLocation) # "request"
       /\ calcReq' = None
       /\ (HandlePlaceOrder /\ serviceType = "delivery"
             /\ Len(placedOrders') > Len(placedOrders)) =>
            LET o == placedOrders'[Len(placedOrders')]
            IN /\ ~Blank(o.body.customer_name)
               /\ ~Blank(o.body.customer_phone)
               /\ ~Blank(o.body.address)
               /\ o.body.delivery_fee = selectedDeliveryFee
               /\ deliveryRates # <<>> =>
                    \E k \in DOMAIN deliveryRates :
                      o.body.delivery_fee = deliveryRates[k].price]_vars

\* C18 witness: no geocoordinate, two tiers, the customer picked the second
\* tier by hand and the delivery order was created with its price.
C18_Witness ==
  /\ ~PublishesLocation
  /\ Len(deliveryRates) = 2
  /\ placedOrders # <<>>
  /\ IsDelivery(placedOrders[1])
  /\ placedOrders[1].body.delivery_fee = deliveryRates[2].price
  /\ placedOrders[1].body.calculation = None

\* C19  When a calculation resolves a distance, the fee it returns, and the
\* selected delivery fee afterwards, is the exact price of the tier with the
\* smallest distance_km that is >= the distance; when the distance exceeds
\* every tier the result is out of range, carries no fee, and the selected
\* delivery fee is left as it was.
C19_TierFee ==
  [][\A km \in 1 .. MaxDistance :
       CalculateDeliveryFeeDone(TRUE, km) =>
         LET rates == calcReq.delivery_rates
             fits  == {i \in DOMAIN rates : rates[i].distance_km >= km}
         IN IF fits # {}
            THEN \E i \in fits :
                   /\ \A j \in fits : rates[i].distance_km <= rates[j].distance_km
                   /\ deliveryCalculation'.is_within_range
                   /\ deliveryCalculation'.delivery_fee = rates[i].price
                   /\ selectedDeliveryFee' = rates[i].price
            ELSE /\ ~deliveryCalculation'.is_within_range
                 /\ deliveryCalculation'.delivery_fee = NullFee
                 /\ selectedDeliveryFee' = selectedDeliveryFee]_vars

\* C19 witness: a calculation put the address beyond the last tier, after an
\* earlier one had selected the fee of the second tier; that fee is still
\* selected.
C19_Witness ==
  /\ deliveryCalculation # None
  /\ deliveryCalculation.success
  /\ ~deliveryCalculation.is_within_range
  /\ deliveryCalculation.distance_km = MaxDistance
  /\ Len(deliveryRates) = 2
  /\ selectedDeliveryFee = deliveryRates[2].price

\* The sum over the items of unit price times quantity.
RECURSIVE SumItems(_, _)
SumItems(items, n) ==
  IF n = 0 THEN 0 ELSE items[n].price * items[n].quantity + SumItems(items, n - 1)

\* C20  Every order is created in status pending with subtotal the sum over its
\* items of unit price * quantity, delivery_fee 0 unless it is a delivery
\* order, and total_price = subtotal + delivery_fee + tax; an order once
\* created is not changed.
C20_TotalPrice ==
  [][/\ \A i \in DOMAIN placedOrders' :
          LET o == placedOrders'[i]
          IN /\ o.status = "pending"
             /\ o.subtotal = SumItems(o.body.items, Len(o.body.items))
             /\ ~IsDelivery(o) => o.delivery_fee = 0
             /\ o.total_price = o.subtotal + o.delivery_fee + o.tax
     /\ \A i \in DOMAIN placedOrders : placedOrders'[i] = placedOrders[i]]_vars

\* C20 witness: a dine_in order for table "5" with two items totalling 20, no
\* delivery fee and no tax, created with total_price 20 in status pending.
C20_Witness ==
  /\ placedOrders # <<>>
  /\ placedOrders[1].body.service_type = "dine_in"
  /\ placedOrders[1].body.table_no = <<"5">>
  /\ Len(placedOrders[1].body.items) = 2
  /\ placedOrders[1].subtotal = 20
  /\ placedOrders[1].delivery_fee = 0
  /\ placedOrders[1].tax = 0
  /\ placedOrders[1].total_price = 20
  /\ placedOrders[1].status = "pending"

\* How many cards of the list show request id.
CountInView(list, id) == Len(SelectSeq(list, LAMBDA q : q.id = id))

C22_RequestStatusForward ==
  [][\A id \in RequestIds :
       /\ reqDb[id] = "completed" => reqDb'[id] = "completed"
       /\ reqDb[id] = "acknowledged" => reqDb'[id] \in {"acknowledged", "completed"}]_vars

\* The staff identities an update payload writes into the row.
WrittenActors(u) ==
  IF "acknowledged_by" \in WrittenColumns(u) THEN {u.acknowledged_by} ELSE {}

\* C23  Every transition of a service request to acknowledged or to completed
\* that this screen writes records the identity of the acting staff member
\* (session.staffId) and the time of the transition in the row.
C23_TransitionsStamped ==
  [][\A i \in 1 .. MaxReqView : \A s \in {"acknowledged", "completed"} :
       (UpdateRequestStatus(i, s) /\ ~reqResp'.error) =>
         LET id == serviceRequests[i].id
             u  == RequestUpdate(s, StaffId, now)
         IN /\ reqStamps'[id] = StampsAfter(reqStamps[id], u)
            /\ s = "acknowledged" => reqStamps'[id].acknowledged_at = now
            /\ s = "completed" => reqStamps'[id].completed_at = now
            /\ StaffId \in WrittenActors(u)]_vars

\* C25  updated_at of an order or service request row is assigned by the
\* storage only: no request of this screen carries an updated_at taken from
\* the client's clock into the row.
C25_UpdatedAtByStorage ==
  [][/\ \A i \in 1 .. MaxView : \A s \in Statuses :
          UpdateOrderStatus(i, s) => "updated_at" \notin DOMAIN statusResp'.body
     /\ \A i \in 1 .. MaxReqView : \A s \in RequestStatuses :
          (UpdateRequestStatus(i, s) /\ ~reqResp'.error) =>
            LET id == serviceRequests[i].id
                u  == RequestUpdate(s, StaffId, now)
            IN ~(/\ "updated_at" \in WrittenColumns(u)
                 /\ reqStamps'[id].updated_at = now)]_vars

\* C24  handleServiceRequest sends a request only with a non-empty table_no
\* and a request_type of SERVICE_REQUEST_TYPES: with either missing it sends
\* nothing (it shows an alert and returns); with both present it sends them,
\* whether or not a message was typed.  The Send Request button is disabled
\* exactly when the handler would not send.
C24_RequestNeedsTableAndType ==
  [][HandleServiceRequest =>
       /\ (selectedRequestType \notin ServiceRequestTypes
             \/ Blank(customerDetails.table_no)) =>
            /\ sentRequests' = sentRequests
            /\ sendingRequest' = FALSE
            /\ alertMsg' \in {AlertSelectType, AlertTableFirst}
       /\ (selectedRequestType \in ServiceRequestTypes
             /\ ~Blank(customerDetails.table_no)) =>
            /\ Len(sentRequests') = Len(sentRequests) + 1
            /\ sentRequests'[Len(sentRequests')].table_no = customerDetails.table_no
            /\ sentRequests'[Len(sentRequests')].request_type = selectedRequestType
            /\ sentRequests'[Len(sentRequests')].message
                 = (IF customMessage = <<>> THEN NullText ELSE customMessage)
       /\ SendRequestDisabled <=>
            (sendingRequest
               \/ ServiceRequestAlert(selectedRequestType, customerDetails.table_no) # NoAlert)]_vars

\* C24 witness: a first request went out with no message; then, with a type
\* selected and a table number of white space only, the handler showed the
\* table-number alert and sent nothing more.
C24_Witness ==
  /\ Len(sentRequests) = 1
  /\ sentRequests[1].message = NullText
  /\ sentRequests[1].table_no = <<"5">>
  /\ selectedRequestType \in ServiceRequestTypes
  /\ customerDetails.table_no = <<" ">>
  /\ alertMsg = AlertTableFirst
  /\ ~sendingRequest

\* C26  An UPDATE or DELETE event of an order or of a service request triggers
\* no alert on the kitchen display or the staff screen: the callback that
\* handles it plays nothing and counts no notification; a step that makes the
\* device play something is the delivery of an INSERT event.
C26_OnlyInsertsAlert ==
  [][/\ \A e \in events :
          (DeliverOrderEvent(e) /\ e.eventType # "INSERT") =>
            played' = NoOutput /\ alerts' = alerts
     /\ \A e \in reqEvents :
          (DeliverRequestEvent(e) /\ e.eventType # "INSERT") => played' = NoOutput
     /\ (played' # NoOutput /\ played' # played) =>
          \/ \E e \in events : e.eventType = "INSERT" /\ DeliverOrderEvent(e)
          \/ \E e \in reqEvents : e.eventType = "INSERT" /\ DeliverRequestEvent(e)]_vars

\* C26 witness: with sound on and a working synthesizer, the order was
\* announced once when its INSERT arrived; the callback has since handled the
\* UPDATE to confirmed, replaced the card and played nothing.
C26_Witness ==
  /\ soundEnabled /\ vibrationEnabled
  /\ audio = "synth"
  /\ delivered # None
  /\ delivered.eventType = "UPDATE"
  /\ delivered.status = "confirmed"
  /\ alerts[delivered.id] = 1
  /\ \E i \in DOMAIN orders : orders[i].id = delivered.id /\ orders[i].status = "confirmed"
  /\ played = NoOutput

\* C27  On the staff screen the INSERT of a service request plays the
\* new-request pattern (its tone whenever sound is on and the synthesizer
\* works, its vibration always), which is not what the INSERT of an order
\* would play in the same state, and leaves the requests tab active whatever
\* tab was active before.
C27_NewRequestPattern ==
  [][\A e \in reqEvents :
       (DeliverRequestEvent(e) /\ e.eventType = "INSERT") =>
         /\ activeTab' = "requests"
         /\ played'.vibration = VibrationPattern("request")
         /\ played'.sound \in {SynthPattern("request"), Silent}
         /\ (soundEnabled /\ audio = "synth") => played'.sound = SynthPattern("request")
         /\ played' # OrderEventOutput("staff", "INSERT", FALSE)
         /\ SynthPattern("request") # SynthPattern("order")
         /\ VibrationPattern("request") # VibrationPattern("order")]_vars

\* C27 witness: the staff screen holds an order and a request, the orders tab
\* was left for the requests tab, and the device played the request tone and
\* the request vibration last.
C27_Witness ==
  /\ role = "staff"
  /\ orders # <<>>
  /\ serviceRequests # <<>>
  /\ serviceRequests[1].status = "pending"
  /\ activeTab = "requests"
  /\ played = [sound |-> "600,800,600,800 triangle", vibration |-> "300,100,300,100,300"]

\* C28  Muting suppresses the sound only: with soundEnabled false the INSERT
\* of an order or of a service request plays no tone, the vibration is as
\* the vibration setting says, and the order or request is still put at the
\* head of the list, so that the order count and the pending badge go up by
\* one.
C28_MuteIsSoundOnly ==
  [][/\ \A e \in events :
          (DeliverOrderEvent(e) /\ e.eventType = "INSERT" /\ ~soundEnabled) =>
            /\ played'.sound = Silent
            /\ played'.vibration = (IF vibrationEnabled THEN VibrationPattern("order") ELSE Silent)
            /\ orders' = <<Row(e)>> \o orders
            /\ Len(orders') = Len(orders) + 1
     /\ \A e \in reqEvents :
          (DeliverRequestEvent(e) /\ e.eventType = "INSERT" /\ ~soundEnabled) =>
            /\ played'.sound = Silent
            /\ played'.vibration = (IF vibrationEnabled THEN VibrationPattern("request") ELSE Silent)
            /\ serviceRequests' = <<RequestRow(e)>> \o serviceRequests
            /\ PendingRequestsCount(serviceRequests')
                 = PendingRequestsCount(serviceRequests) + 1]_vars

\* C28 witness: sound is off on a screen whose synthesizer works; the INSERT
\* of an order was handled last, without a tone but with the vibration, and
\* the order is at the head of the list.
C28_Witness ==
  /\ ~soundEnabled
  /\ audio = "synth"
  /\ delivered # None
  /\ delivered.eventType = "INSERT"
  /\ played = [sound |-> Silent, vibration |-> "200,100,200"]
  /\ orders # <<>>
  /\ orders[1].id = delivered.id
  /\ alerts[delivered.id] = 1

\* C29  An alert dispatched with sound enabled always gives a tone: the mp3,
\* or, when the mp3 is not loaded, its playback is rejected or the sound
\* subsystem did not initialise, a synthesized tone.
C29_NeverSilentlyDropped ==
  [][/\ \A e \in events :
          (DeliverOrderEvent(e) /\ e.eventType = "INSERT" /\ soundEnabled) =>
            played'.sound \in {Mp3, SynthPattern("order")}
     /\ \A e \in reqEvents :
          (DeliverRequestEvent(e) /\ e.eventType = "INSERT" /\ soundEnabled) =>
            played'.sound = SynthPattern("request")]_vars

\* C30  No transition request of the kitchen display or the staff screen
\* writes payment_status: the body of the request holds the status alone, the
\* step leaves payment_status of every order as it was and changes, at most,
\* the status and updated_at of the order it names; payment_status changes
\* only by the payment collaborator.
C30_PaymentStatusNotWritten ==
  [][/\ \A i \in 1 .. MaxView : \A s \in Statuses :
          UpdateOrderStatus(i, s) =>
            /\ DOMAIN statusResp'.body = {"status"}
            /\ statusResp'.body.status = s
            /\ payment' = payment
            /\ \A id \in OrderIds : id # orders[i].id => db'[id] = db[id]
     /\ payment' # payment => \E id \in OrderIds : PaymentElsewhere(id)]_vars

\* C30 witness: a transition request for a paid order was accepted; the order
\* has the new status and is still paid, the other order is still unpaid.
C30_Witness ==
  /\ statusResp # None
  /\ statusResp.ok
  /\ statusResp.body = [status |-> statusResp.newStatus]
  /\ db[statusResp.orderId].status = statusResp.newStatus
  /\ payment[statusResp.orderId] = "paid"
  /\ \E id \in OrderIds : payment[id] = "unpaid"

\* C31  Changing an alert setting (mute, vibration, volume) loses no change
\* event: every event the storage emitted can still be handed to the callback
\* of the view, although the subscription effect depends on playNotification
\* and subscribes again when a setting changes.
C31_NoEventLostOnSettingChange ==
  \A e \in events : e \notin missed

\* The callback has just handled the terminal update of order id, an order it
\* had announced, and the order is not in the view.
JustRemoved(id) ==
  /\ alerts[id] > 0
  /\ delivered # None
  /\ delivered.id = id
  /\ IsTerminalUpdate(delivered)
  /\ ~InView(orders, id)

\* C32  An order removed from the kitchen or staff view by a terminal update
\* does not come back: whatever is handled next (an INSERT delivered again, an
\* older update, the response of a snapshot fetch started before the removal),
\* the order is still out of the view.
C32_RemovedStaysOut ==
  [][\A id \in OrderIds : JustRemoved(id) => ~InView(orders', id)]_vars

\* C33  One cart, one order: while a create-order request of handlePlaceOrder
\* is awaited, handlePlaceOrder sends no second request and no second order is
\* created.
C33_NoSecondRequestInFlight ==
  [][(HandlePlaceOrder /\ placeResps # <<>>) =>
       (placeResps' = placeResps /\ placedOrders' = placedOrders)]_vars

\* Units of menu item id in a cart: the quantities of its lines, summed.
RECURSIVE UnitsOf(_, _)
UnitsOf(items, id) ==
  IF items = <<>> THEN 0
  ELSE (IF items[Len(items)].menu_id = id THEN items[Len(items)].quantity ELSE 0)
         + UnitsOf(SubSeq(items, 1, Len(items) - 1), id)

\* C34  Confirming the item modal with quantity q >= 1 puts q more units of
\* the item in the cart and raises the subtotal by the total the modal
\* displays (calculatePrice).
C34_ModalAddsQuantity ==
  [][HandleAddToCart =>
       /\ UnitsOf(cart', itemModal.menu_id)
            = UnitsOf(cart, itemModal.menu_id) + itemModal.quantity
       /\ GetSubtotal(cart')
            = GetSubtotal(cart) + CalculatePrice(itemModal.menu_id, itemModal.selectedMeat,
                                                 itemModal.selectedAddOns, itemModal.quantity)]_vars

\* A cart without its line i.
WithoutLine(items, i) == SubSeq(items, 1, i - 1) \o SubSeq(items, i + 1, Len(items))

\* C35  Removing a cart line or changing its quantity touches that line only,
\* lines of the same menu item with another meat, add-on or note included, and
\* no quantity drops below 1.
C35_LineOperationsAreLocal ==
  [][/\ \A i \in 1 .. MaxCart : \A delta \in {0 - 1, 1} :
          UpdateLineQuantity(i, delta) =>
            /\ Len(cart') = Len(cart)
            /\ \A j \in DOMAIN cart : j # i => cart'[j] = cart[j]
            /\ \A j \in DOMAIN cart' : cart'[j].quantity >= 1
     /\ \A i \in 1 .. MaxCart : RemoveLine(i) => cart' = WithoutLine(cart, i)]_vars

\* C36  On the keypad of the POS login page the sixth digit submits the PIN
\* without the Enter button: the timeout it schedules posts the six digits
\* shown when it fires; and the PIN never holds more than six digits.
C36_SixthDigitSubmits ==
  [][/\ Len(pin') <= PinLength
     /\ (AutoSubmit /\ Len(pin) = PinLength /\ ~Loading) => verifyReq' = pin]_vars

\* C37  For every status of the lifecycle (pending, confirmed, preparing,
\* ready, completed, cancelled) the order-status page shows a label of its
\* own, never 'Unknown'.
C37_EveryStatusLabelled ==
  (StatusCardShown /\ order.status \in Statuses) => StatusText # "Unknown"

\* All UPDATE events of the tracked order have reached the callback and no
\* fetchOrder is awaited.
StatusSettled ==
  /\ StatusCardShown
  /\ orderFetches = {}
  /\ \A e \in events : (e.eventType = "UPDATE" /\ e.id = TrackedId) => e \in orderEventsSeen

\* C38  The status on the order-status page never goes back from a newer
\* status of the order to an older one, and once every event and every
\* refetch response has been handled it is the status the storage holds,
\* also when the refetches are answered out of order.
C38_StatusNeverGoesBack ==
  [][/\ \A r \in orderFetches :
          (FetchOrderDone(r) /\ order # NoOrder) => order'.updated_at >= order.updated_at
     /\ StatusSettled' => order'.status = db'[TrackedId].status]_vars

\* C39  On the cashier dashboard, once no summary request is outstanding, the
\* daily summary displayed is the one of the selected date, also when the date
\* was changed while an earlier request was in flight.
C39_SummaryOfSelectedDate ==
  (/\ cashier = "open"
   /\ summaryFetches = {}
   /\ summaryError = NoError
   /\ summary # NoSummary) => summary.date = selectedDate

====
